---------------------------- MODULE Spec2Model ----------------------------
(***************************************************************************)
(* The scripts of civic-ai-tools-example as one state machine:             *)
(*   examples/real_data_analysis.py         (script = "analysis")          *)
(*   examples/create_visualizations.py      (script = "charts")            *)
(*   examples/create_html_visualizations.py (script = "html")              *)
(*   examples/mcp_demo.py, examples/interactive_mcp_example.py and         *)
(*   scripts/analyze_nyc_data.py            (script = the file's name)     *)
(* One behaviour is one invocation of one script, or the dashboard script  *)
(* followed by the chart script.  A count and a grade are                  *)
(* JSON strings, modelled as sequences of one-character strings, so that   *)
(* int() and str.upper() are computed and not assumed.                     *)
(***************************************************************************)
EXTENDS Integers, Sequences, FiniteSets, TLC

VARIABLES
    script,               \* which script's main() runs in this behaviour
    file_exists,          \* charts, html: whether analysis_results.json exists
    pc,                   \* position of the running script
    err,                  \* "none", or the exception raised
    net,                  \* analysis: what the remote services answer in this run
    failed,               \* analysis: the fetch operations whose request raised
    complaints,           \* the 311 complaint records in hand
    grades,               \* the restaurant grade records in hand
    nyc_pop,              \* analysis: result of fetch_nyc_population
    cities,               \* analysis: result of fetch_city_comparison
    results,              \* analysis: self.results
    todo,                 \* charts: chart methods still to be called
    i,                    \* records consumed by the loop in progress
    grade_counts,         \* charts: grade_counts of create_restaurant_grades_chart
    category_counts,      \* charts: category_counts of create_complaint_categories_chart
    complaint_counts,     \* html: complaint_counts
    grade_data,           \* html: grade_data
    totals,               \* html: total_a, total_b, total_c, total_restaurants, borough_totals
    category_counts_html, \* html: category_counts
    shown,                \* percentages computed so far, in order, as [what, part, whole, value]
    done,                 \* analysis: analysis steps that have run, in order
    files,                \* names of the files written in this run
    dirs,                 \* names of the directories created in this run
    fetched,              \* analysis: fetch operations that have returned, in order
    top_complaints,       \* the slice complaints[:n] last taken, as [n, rows]
    borough_totals,       \* charts: borough_totals.items(), in insertion order (<<>> before)
    sorted_boroughs,      \* charts: sorted_boroughs (<<>> before)
    borough_data,         \* analysis: borough_data of analyze_restaurant_grades
    city_order,           \* analysis: the city names as analyze_population_comparison lists them
    requests,             \* analysis: the HTTP requests issued, in order, as [op, url, ok]
    sections,             \* tutorials: the sections printed, in order
    entered,              \* tutorials: the prompts at which Enter was pressed
    printed_total,        \* analysis: the Total column of analyze_restaurant_grades, per borough
    grand_total,          \* analysis: grand_total of analyze_restaurant_grades
    sizes                 \* charts: sizes of create_grade_distribution_pie (<<>> before)

vars == <<script, file_exists, pc, err, net, failed, complaints, grades, nyc_pop, cities,
          results, todo, i, grade_counts, category_counts, complaint_counts,
          grade_data, totals, category_counts_html, shown, done, files, dirs, fetched,
          top_complaints, borough_totals, sorted_boroughs, borough_data, city_order,
          requests, sections, entered, printed_total, grand_total, sizes>>

-----------------------------------------------------------------------------
(* Bound of the model: the number of records (complaints plus grades) in   *)
(* one result set.                                                         *)
MaxRecords == 3

(* Bound of the model: the length of the longest complaint list, long      *)
(* enough for the slices complaints[:5] and complaints[:10] to cut it.     *)
MaxLong == 12

-----------------------------------------------------------------------------
(* Python built-ins used by the scripts.                                   *)

DigitChars == {"0", "1", "2", "3", "4", "5", "6", "7", "8", "9"}

DigitVal(c) ==
    CASE c = "0" -> 0 [] c = "1" -> 1 [] c = "2" -> 2 [] c = "3" -> 3
      [] c = "4" -> 4 [] c = "5" -> 5 [] c = "6" -> 6 [] c = "7" -> 7
      [] c = "8" -> 8 [] c = "9" -> 9

RECURSIVE LStrip(_)
LStrip(s) == IF s # <<>> /\ Head(s) = " " THEN LStrip(Tail(s)) ELSE s

RECURSIVE RStrip(_)
RStrip(s) ==
    IF s # <<>> /\ s[Len(s)] = " " THEN RStrip(SubSeq(s, 1, Len(s) - 1)) ELSE s

\* digits, single underscores allowed between two digits
ValidDigits(s) ==
    /\ s # <<>>
    /\ \A k \in 1..Len(s) :
          \/ s[k] \in DigitChars
          \/ /\ s[k] = "_"
             /\ 1 < k /\ k < Len(s)
             /\ s[k - 1] \in DigitChars /\ s[k + 1] \in DigitChars

RECURSIVE DigitsValue(_, _)
DigitsValue(s, acc) ==
    IF s = <<>> THEN acc
    ELSE IF Head(s) = "_" THEN DigitsValue(Tail(s), acc)
    ELSE DigitsValue(Tail(s), acc * 10 + DigitVal(Head(s)))

\* int(s) for a str s: [ok |-> FALSE] stands for ValueError
ParseInt(s) ==
    LET t == RStrip(LStrip(s))
        signed == t # <<>> /\ Head(t) \in {"+", "-"}
        body == IF signed THEN Tail(t) ELSE t
    IN  IF ValidDigits(body)
        THEN [ok |-> TRUE,
              val |-> IF signed /\ Head(t) = "-" THEN 0 - DigitsValue(body, 0)
                      ELSE DigitsValue(body, 0)]
        ELSE [ok |-> FALSE, val |-> 0]

UpperChar(c) ==
    CASE c = "a" -> "A" [] c = "b" -> "B" [] c = "c" -> "C"
      [] c = "n" -> "N" [] c = "z" -> "Z" [] OTHER -> c

\* variant: the grade is matched as given
UpperIdentity(s) == s

\* str.upper()
Upper(s) == [k \in 1..Len(s) |-> UpperChar(s[k])]

RECURSIVE SumSeq(_)
SumSeq(s) == IF s = <<>> THEN 0 ELSE Head(s) + SumSeq(Tail(s))


\* part / whole * 100 formatted with .1f, in tenths of a percent (whole # 0);
\* the quotient is rounded half to even, the binary rounding error of the
\* float division is not modelled
PercentTenths(part, whole) ==
    LET num == IF whole < 0 THEN 0 - part * 1000 ELSE part * 1000
        den == IF whole < 0 THEN 0 - whole ELSE whole
        q == num \div den
        r == num % den
    IN  IF 2 * r > den THEN q + 1
        ELSE IF 2 * r = den THEN q + (q % 2)
        ELSE q

\* d[k] += v on a dict d; a missing key is a KeyError
HasKey(d, k) == k \in DOMAIN d

DictAdd(d, k, v) == [d EXCEPT ![k] = @ + v]

-----------------------------------------------------------------------------
(* Configuration literals of the visualizers.                              *)

\* variant: the type "Noise" is listed under Infrastructure too
categoriesOverlapping ==
    << [name |-> "Infrastructure", types |-> {"HEAT/HOT WATER", "PLUMBING", "Noise"}],
       [name |-> "Noise",
        types |-> {"Noise - Residential", "Noise - Street/Sidewalk",
                   "Noise - Commercial", "Noise"}],
       [name |-> "Parking", types |-> {"Illegal Parking", "Blocked Driveway"}],
       [name |-> "Other", types |-> {}] >>

\* the categories dict, in insertion order
categories ==
    << [name |-> "Infrastructure", types |-> {"HEAT/HOT WATER", "PLUMBING"}],
       [name |-> "Noise",
        types |-> {"Noise - Residential", "Noise - Street/Sidewalk",
                   "Noise - Commercial", "Noise"}],
       [name |-> "Parking", types |-> {"Illegal Parking", "Blocked Driveway"}],
       [name |-> "Other", types |-> {}] >>

CategoryNames == {categories[k].name : k \in 1..Len(categories)}

boroughs == <<"Manhattan", "Brooklyn", "Queens", "Bronx", "Staten Island">>

BoroughSet == {boroughs[k] : k \in 1..Len(boroughs)}

\* the list ['A', 'B', 'C']
RecognizedGrades == {<<"A">>, <<"B">>, <<"C">>}

\* a dict that has not been created yet
Unset == [unset |-> 0]

\* variant: only the categories that list types get a key
NewCategoryCountsNoOther == [c \in CategoryNames \ {"Other"} |-> 0]

\* {cat: 0 for cat in categories.keys()}
NewCategoryCounts == [c \in CategoryNames |-> 0]

\* {boro: {'A': 0, 'B': 0, 'C': 0} for boro in boroughs}
NewGradeTable == [b \in BoroughSet |-> [g \in RecognizedGrades |-> 0]]

\* the inner for/break loop over categories.items(): the first category, from
\* position k on, whose list holds the type; "" when the loop ends uncategorized
RECURSIVE FirstCategory(_, _)
FirstCategory(complaint_type, k) ==
    IF k > Len(categories) THEN ""
    ELSE IF complaint_type \in categories[k].types THEN categories[k].name
    ELSE FirstCategory(complaint_type, k + 1)

\* variant: the type is matched without regard to case
BucketOfFolded(complaint_type) ==
    LET folded == IF complaint_type = "noise" THEN "Noise" ELSE complaint_type
        category == FirstCategory(folded, 1)
    IN  IF category = "" THEN "Other" ELSE category

\* the bucket one complaint's count is added to
BucketOf(complaint_type) ==
    LET category == FirstCategory(complaint_type, 1)
    IN  IF category = "" THEN "Other" ELSE category

\* variant: categorized is never set, a matched record is counted in Other too
CategoryAddTwice(counts, complaint_type, count) ==
    LET once == DictAdd(counts, BucketOf(complaint_type), count)
    IN  IF FirstCategory(complaint_type, 1) = "" THEN once
        ELSE DictAdd(once, "Other", count)

\* one pass of the body of the category loop, the count already converted
CategoryAdd(counts, complaint_type, count) ==
    DictAdd(counts, BucketOf(complaint_type), count)

\* one pass of the body of the grade loop, the count already converted:
\* boro in grade_counts and grade in ['A', 'B', 'C']
GradeMatches(table, boro, grade) ==
    boro \in DOMAIN table /\ Upper(grade) \in RecognizedGrades

\* variant: a borough met for the first time gets a row of its own
GradeAddAnyBorough(table, boro, grade, count) ==
    LET g == Upper(grade)
        row == IF boro \in DOMAIN table THEN table[boro]
               ELSE [x \in RecognizedGrades |-> 0]
    IN  IF g \in RecognizedGrades
        THEN [b \in DOMAIN table \cup {boro} |->
                 IF b = boro THEN [row EXCEPT ![g] = @ + count] ELSE table[b]]
        ELSE table

\* variant: a grade that is none of A, B, C is counted as C
GradeAddAnyGrade(table, boro, grade, count) ==
    LET g == IF Upper(grade) \in RecognizedGrades THEN Upper(grade) ELSE <<"C">>
    IN  IF boro \in DOMAIN table
        THEN [table EXCEPT ![boro][g] = @ + count]
        ELSE table

\* the filter and the addition of the grade loop
GradeAdd(table, boro, grade, count) ==
    IF GradeMatches(table, boro, grade)
    THEN [table EXCEPT ![boro][Upper(grade)] = @ + count]
    ELSE table

-----------------------------------------------------------------------------
(* The bounded input domain: sample records of the two result sets.        *)

ComplaintRecords ==
    { [complaint_type |-> "Noise",           count |-> <<"5">>],
      [complaint_type |-> "HEAT/HOT WATER",  count |-> <<"3">>],
      [complaint_type |-> "Weird",           count |-> <<"2">>],
      [complaint_type |-> "Illegal Parking", count |-> <<"1", "0">>],
      [complaint_type |-> "noise",           count |-> <<"-", "4">>],
      [complaint_type |-> "PLUMBING",        count |-> <<"a", "b", "c">>] }

GradeRecords ==
    { [boro |-> "Manhattan", grade |-> <<"a">>, count |-> <<"1", "0">>],
      [boro |-> "Mars",      grade |-> <<"A">>, count |-> <<"5">>],
      [boro |-> "Brooklyn",  grade |-> <<"B">>, count |-> <<"7">>],
      [boro |-> "Queens",    grade |-> <<"Z">>, count |-> <<"5">>],
      [boro |-> "Manhattan", grade |-> <<"c">>, count |-> <<"-", "1">>],
      [boro |-> "Mars",      grade |-> <<"N">>, count |-> <<"x">>],
      [boro |-> "Bronx",     grade |-> <<"Z">>, count |-> <<"-", "5">>],
      [boro |-> "Mars",      grade |-> <<"B">>, count |-> <<"-", "2">>] }

SeqsUpTo(S, n) == UNION {[1..k -> S] : k \in 0..n}

\* complaint lists of more than MaxRecords and at most MaxLong records, ordered as
\* the query's ORDER BY count DESC: high records of "Noise", then low ones of "Weird"
LongComplaintLists ==
    {[k \in 1..n |-> IF k <= high THEN [complaint_type |-> "Noise", count |-> <<"5">>]
                                  ELSE [complaint_type |-> "Weird", count |-> <<"2">>]] :
        n \in (MaxRecords + 1)..MaxLong, high \in 0..MaxLong}

\* the result sets with at most MaxRecords records in all, and the long complaint
\* lists beside an empty grade list
ResultSets ==
    {p \in SeqsUpTo(ComplaintRecords, MaxRecords) \X SeqsUpTo(GradeRecords, MaxRecords) :
        Len(p[1]) + Len(p[2]) <= MaxRecords}
    \cup {<<c, <<>> >> : c \in LongComplaintLists}

-----------------------------------------------------------------------------
(* Helpers over record lists.                                              *)

\* [int(c['count']) for c in records], defined when every count converts
AllCountsConvert(records) == \A k \in 1..Len(records) : ParseInt(records[k].count).ok

IntCounts(records) == [k \in 1..Len(records) |-> ParseInt(records[k].count).val]

\* sum(table[b][g] for b in boroughs)
RECURSIVE SumGrade(_, _, _)
SumGrade(table, g, k) ==
    IF k > Len(boroughs) THEN 0
    ELSE table[boroughs[k]][g] + SumGrade(table, g, k + 1)

\* variant: the sum of a row leaves the C cell out
BoroughTotalNoC(table, b) == table[b][<<"A">>] + table[b][<<"B">>]

\* sum(table[b].values())
BoroughTotal(table, b) == table[b][<<"A">>] + table[b][<<"B">>] + table[b][<<"C">>]

\* variant: the slice keeps one record too many
TakeOneMore(records, n) ==
    SubSeq(records, 1, IF Len(records) < n + 1 THEN Len(records) ELSE n + 1)

\* records[:n]
Take(records, n) == SubSeq(records, 1, IF Len(records) < n THEN Len(records) ELSE n)

NoTotals == [a |-> 0, b |-> 0, c |-> 0, restaurants |-> 0, borough_totals |-> <<>>]

\* the loop that fills borough_totals, the counts already checked to convert: the
\* dict as its items <<boro, total>>, a boro met for the first time appended last
RECURSIVE BoroughTotals(_)
BoroughTotals(records) ==
    IF records = <<>> THEN <<>>
    ELSE LET n == Len(records)
             before == BoroughTotals(SubSeq(records, 1, n - 1))
             boro == records[n].boro
             count == ParseInt(records[n].count).val
         IN  IF \E k \in 1..Len(before) : before[k][1] = boro
             THEN [k \in 1..Len(before) |->
                      IF before[k][1] = boro THEN <<boro, before[k][2] + count>>
                      ELSE before[k]]
             ELSE Append(before, <<boro, count>>)

\* list.reverse()
Reversed(s) == [k \in 1..Len(s) |-> s[Len(s) + 1 - k]]

\* one insertion of the stable ascending sort on x[1]: item goes behind every
\* element whose key is not greater than its own
InsertByKey(s, item) ==
    LET p == Cardinality({k \in 1..Len(s) : s[k][2] <= item[2]})
    IN  SubSeq(s, 1, p) \o <<item>> \o SubSeq(s, p + 1, Len(s))

RECURSIVE StableSort(_)
StableSort(s) ==
    IF s = <<>> THEN <<>>
    ELSE InsertByKey(StableSort(SubSeq(s, 1, Len(s) - 1)), s[Len(s)])

\* variant: the ascending order is reversed, and ties with it
SortedReverseNaive(items) == Reversed(StableSort(items))

\* sorted(items, key=lambda x: x[1], reverse=True): the list reversed, sorted
\* ascending and stable, and reversed again
SortedReverse(items) == Reversed(StableSort(Reversed(items)))

NoNet == [unused |-> TRUE]

-----------------------------------------------------------------------------
(* examples/create_html_visualizations.py                                  *)

htmlVars == <<complaint_counts, grade_data, totals, category_counts_html>>
chartVars == <<todo, grade_counts, category_counts>>
runVars == <<net, failed, nyc_pop, cities, results, done>>

\* main: HTMLVisualizer() opens analysis_results.json
HtmlLoad ==
    /\ script = "html" /\ pc = "start"
    /\ IF file_exists
       THEN pc' = "prepare" /\ err' = err
       ELSE pc' = "handled" /\ err' = "FileNotFoundError"
    /\ UNCHANGED <<script, file_exists, complaints, grades, i, shown, files,
                   htmlVars, chartVars, runVars>>
    /\ UNCHANGED <<borough_totals, sorted_boroughs, city_order, borough_data, top_complaints, fetched, dirs>>
    /\ UNCHANGED <<requests, sections, entered, printed_total, grand_total, sizes>>

\* create_html_dashboard up to the grade loop
HtmlPrepare ==
    /\ script = "html" /\ pc = "prepare"
    /\ IF AllCountsConvert(complaints)
       THEN /\ complaint_counts' = IntCounts(complaints)
            /\ grade_data' = NewGradeTable
            /\ i' = 0
            /\ pc' = "grade_loop" /\ err' = err
       ELSE /\ pc' = "handled" /\ err' = "ValueError"
            /\ UNCHANGED <<complaint_counts, grade_data, i>>
    /\ UNCHANGED <<script, file_exists, complaints, grades, shown, files,
                   totals, category_counts_html, chartVars, runVars>>
    /\ UNCHANGED <<borough_totals, sorted_boroughs, city_order, borough_data, top_complaints, fetched, dirs>>
    /\ UNCHANGED <<requests, sections, entered, printed_total, grand_total, sizes>>

\* variant: the grade is matched as it is spelled, without upper()
HtmlGradeStepExactCase ==
    /\ script = "html" /\ pc = "grade_loop" /\ i < Len(grades)
    /\ LET item == grades[i + 1]
           count == ParseInt(item.count)
       IN  IF count.ok
           THEN /\ grade_data' = IF item.boro \in DOMAIN grade_data
                                     /\ item.grade \in RecognizedGrades
                                  THEN [grade_data EXCEPT ![item.boro][item.grade] =
                                                              @ + count.val]
                                  ELSE grade_data
                /\ i' = i + 1
                /\ UNCHANGED <<pc, err>>
           ELSE /\ pc' = "handled" /\ err' = "ValueError"
                /\ UNCHANGED <<grade_data, i>>
    /\ UNCHANGED <<script, file_exists, complaints, grades, shown, files,
                   complaint_counts, totals, category_counts_html, chartVars, runVars>>
    /\ UNCHANGED <<borough_totals, sorted_boroughs, city_order, borough_data, top_complaints, fetched, dirs>>
    /\ UNCHANGED <<requests, sections, entered, printed_total, grand_total, sizes>>

\* one pass of "for item in grades"
HtmlGradeStep ==
    /\ script = "html" /\ pc = "grade_loop" /\ i < Len(grades)
    /\ LET item == grades[i + 1]
           count == ParseInt(item.count)
       IN  IF count.ok
           THEN /\ grade_data' = GradeAdd(grade_data, item.boro, item.grade, count.val)
                /\ i' = i + 1
                /\ UNCHANGED <<pc, err>>
           ELSE /\ pc' = "handled" /\ err' = "ValueError"
                /\ UNCHANGED <<grade_data, i>>
    /\ UNCHANGED <<script, file_exists, complaints, grades, shown, files,
                   complaint_counts, totals, category_counts_html, chartVars, runVars>>
    /\ UNCHANGED <<borough_totals, sorted_boroughs, city_order, borough_data, top_complaints, fetched, dirs>>
    /\ UNCHANGED <<requests, sections, entered, printed_total, grand_total, sizes>>

\* the totals after the grade loop, and the fresh category_counts
HtmlTotals ==
    /\ script = "html" /\ pc = "grade_loop" /\ i = Len(grades)
    /\ LET total_a == SumGrade(grade_data, <<"A">>, 1)
           total_b == SumGrade(grade_data, <<"B">>, 1)
           total_c == SumGrade(grade_data, <<"C">>, 1)
       IN  totals' = [a |-> total_a, b |-> total_b, c |-> total_c,
                      restaurants |-> total_a + total_b + total_c,
                      borough_totals |->
                          [k \in 1..Len(boroughs) |-> BoroughTotal(grade_data, boroughs[k])]]
    /\ category_counts_html' = NewCategoryCounts
    /\ i' = 0
    /\ pc' = "category_loop"
    /\ UNCHANGED <<script, file_exists, err, complaints, grades, shown, files,
                   complaint_counts, grade_data, chartVars, runVars>>
    /\ UNCHANGED <<borough_totals, sorted_boroughs, city_order, borough_data, top_complaints, fetched, dirs>>
    /\ UNCHANGED <<requests, sections, entered, printed_total, grand_total, sizes>>

\* one pass of "for complaint in complaints"
HtmlCategoryStep ==
    /\ script = "html" /\ pc = "category_loop" /\ i < Len(complaints)
    /\ LET complaint == complaints[i + 1]
           count == ParseInt(complaint.count)
       IN  IF ~count.ok
           THEN /\ pc' = "handled" /\ err' = "ValueError"
                /\ UNCHANGED <<category_counts_html, i>>
           ELSE IF ~HasKey(category_counts_html, BucketOf(complaint.complaint_type))
           THEN /\ pc' = "handled" /\ err' = "KeyError"
                /\ UNCHANGED <<category_counts_html, i>>
           ELSE /\ category_counts_html' =
                       CategoryAdd(category_counts_html, complaint.complaint_type, count.val)
                /\ i' = i + 1
                /\ UNCHANGED <<pc, err>>
    /\ UNCHANGED <<script, file_exists, complaints, grades, shown, files,
                   complaint_counts, grade_data, totals, chartVars, runVars>>
    /\ UNCHANGED <<borough_totals, sorted_boroughs, city_order, borough_data, top_complaints, fetched, dirs>>
    /\ UNCHANGED <<requests, sections, entered, printed_total, grand_total, sizes>>

\* variant: the share of grade A is 0 when there is no restaurant
HtmlRenderGuarded ==
    /\ script = "html" /\ pc = "category_loop" /\ i = Len(complaints)
    /\ shown' = Append(shown,
           [what |-> "grade_a_share", part |-> totals.a, whole |-> totals.restaurants,
            value |-> IF totals.restaurants = 0 THEN 0
                      ELSE PercentTenths(totals.a, totals.restaurants)])
    /\ pc' = "write" /\ err' = err
    /\ UNCHANGED <<script, file_exists, complaints, grades, i, files,
                   htmlVars, chartVars, runVars>>
    /\ UNCHANGED <<borough_totals, sorted_boroughs, city_order, borough_data,
                   top_complaints, fetched, dirs>>
    /\ UNCHANGED <<requests, sections, entered, printed_total, grand_total, sizes>>

\* the f-string of the page: it divides total_a by total_restaurants
HtmlRender ==
    /\ script = "html" /\ pc = "category_loop" /\ i = Len(complaints)
    /\ IF totals.restaurants = 0
       THEN pc' = "handled" /\ err' = "ZeroDivisionError" /\ shown' = shown
       ELSE /\ shown' = Append(shown,
                   [what |-> "grade_a_share", part |-> totals.a,
                    whole |-> totals.restaurants,
                    value |-> PercentTenths(totals.a, totals.restaurants)])
            /\ pc' = "write" /\ err' = err
    /\ UNCHANGED <<script, file_exists, complaints, grades, i, files,
                   htmlVars, chartVars, runVars>>
    /\ UNCHANGED <<borough_totals, sorted_boroughs, city_order, borough_data, top_complaints, fetched, dirs>>
    /\ UNCHANGED <<requests, sections, entered, printed_total, grand_total, sizes>>

\* the page is written, main reports success
HtmlWrite ==
    /\ script = "html" /\ pc = "write"
    /\ dirs' = dirs \cup {"visualizations"}
    /\ files' = files \cup {"visualizations/dashboard.html"}
    /\ pc' = "done"
    /\ UNCHANGED <<script, file_exists, err, complaints, grades, i, shown,
                   htmlVars, chartVars, runVars>>
    /\ UNCHANGED <<borough_totals, sorted_boroughs, city_order, borough_data, top_complaints, fetched>>
    /\ UNCHANGED <<requests, sections, entered, printed_total, grand_total, sizes>>

-----------------------------------------------------------------------------
(* examples/create_visualizations.py                                       *)

\* the calls of create_all_visualizations, in order
AllCharts ==
    << "create_311_complaints_chart", "create_restaurant_grades_chart",
       "create_grade_distribution_pie", "create_complaint_categories_chart",
       "create_borough_comparison_chart", "create_summary_dashboard" >>

Calling(method) == script = "charts" /\ pc = "next" /\ todo # <<>> /\ Head(todo) = method

\* sum(int(g['count']) for g in grades if g['grade'].upper() == letter)
GradeCountsConvert(records, letter) ==
    \A k \in 1..Len(records) :
        Upper(records[k].grade) = letter => ParseInt(records[k].count).ok

RECURSIVE GradeTotal(_, _)
GradeTotal(records, letter) ==
    IF records = <<>> THEN 0
    ELSE (IF Upper(Head(records).grade) = letter THEN ParseInt(Head(records).count).val
          ELSE 0) + GradeTotal(Tail(records), letter)

PieCountsConvert(records) == \A letter \in RecognizedGrades : GradeCountsConvert(records, letter)

\* sizes for which matplotlib's pie has no wedges to draw: a negative size, or
\* sizes that sum to zero
PieDegenerate(records) ==
    \/ \E letter \in RecognizedGrades : GradeTotal(records, letter) < 0
    \/ GradeTotal(records, <<"A">>) + GradeTotal(records, <<"B">>)
         + GradeTotal(records, <<"C">>) = 0

\* whether ax.pie / savefig raises on these sizes: it may only on degenerate ones
PieRaises(records) == IF PieDegenerate(records) THEN BOOLEAN ELSE {FALSE}

\* variant: the output directory is made before the results file is opened
ChartsLoadMkdirFirst ==
    /\ script = "charts" /\ pc = "start"
    /\ dirs' = dirs \cup {"visualizations"}
    /\ IF file_exists
       THEN pc' = "loaded" /\ err' = err
       ELSE pc' = "handled" /\ err' = "FileNotFoundError"
    /\ UNCHANGED <<script, file_exists, complaints, grades, i, shown, files,
                   htmlVars, chartVars, runVars>>
    /\ UNCHANGED <<borough_totals, sorted_boroughs, city_order, borough_data,
                   top_complaints, fetched>>
    /\ UNCHANGED <<requests, sections, entered, printed_total, grand_total, sizes>>

\* main: DataVisualizer() opens analysis_results.json
ChartsLoad ==
    /\ script = "charts" /\ pc = "start"
    /\ IF file_exists
       THEN pc' = "loaded" /\ err' = err
       ELSE pc' = "handled" /\ err' = "FileNotFoundError"
    /\ UNCHANGED <<script, file_exists, complaints, grades, i, shown, files,
                   htmlVars, chartVars, runVars>>
    /\ UNCHANGED <<borough_totals, sorted_boroughs, city_order, borough_data, top_complaints, fetched, dirs>>
    /\ UNCHANGED <<requests, sections, entered, printed_total, grand_total, sizes>>

\* create_all_visualizations: the output directory, then the six calls
ChartsBegin ==
    /\ script = "charts" /\ pc = "loaded"
    /\ dirs' = dirs \cup {"visualizations"}
    /\ todo' = AllCharts
    /\ pc' = "next"
    /\ UNCHANGED <<script, file_exists, err, complaints, grades, i, shown, files,
                   htmlVars, grade_counts, category_counts, runVars>>
    /\ UNCHANGED <<borough_totals, sorted_boroughs, city_order, borough_data, top_complaints, fetched>>
    /\ UNCHANGED <<requests, sections, entered, printed_total, grand_total, sizes>>

\* create_311_complaints_chart
Create311Chart ==
    /\ Calling("create_311_complaints_chart")
    /\ IF complaints = <<>>
       THEN todo' = Tail(todo) /\ UNCHANGED <<pc, err, files>>
       ELSE IF ~AllCountsConvert(complaints)
       THEN pc' = "handled" /\ err' = "ValueError" /\ UNCHANGED <<todo, files>>
       ELSE /\ files' = files \cup {"visualizations/311_complaints_chart.png"}
            /\ todo' = Tail(todo)
            /\ UNCHANGED <<pc, err>>
    /\ UNCHANGED <<script, file_exists, complaints, grades, i, shown,
                   htmlVars, grade_counts, category_counts, runVars>>
    /\ UNCHANGED <<borough_totals, sorted_boroughs, city_order, borough_data, top_complaints, fetched, dirs>>
    /\ UNCHANGED <<requests, sections, entered, printed_total, grand_total, sizes>>

\* create_restaurant_grades_chart up to its loop
GradesChartBegin ==
    /\ Calling("create_restaurant_grades_chart")
    /\ IF grades = <<>>
       THEN todo' = Tail(todo) /\ UNCHANGED <<pc, i, grade_counts>>
       ELSE /\ grade_counts' = NewGradeTable
            /\ i' = 0
            /\ pc' = "grades_loop"
            /\ todo' = todo
    /\ UNCHANGED <<script, file_exists, err, complaints, grades, shown, files,
                   htmlVars, category_counts, runVars>>
    /\ UNCHANGED <<borough_totals, sorted_boroughs, city_order, borough_data, top_complaints, fetched, dirs>>
    /\ UNCHANGED <<requests, sections, entered, printed_total, grand_total, sizes>>

\* variant: the pass stores the upper-cased grade back into the record
GradesChartStepInPlace ==
    /\ script = "charts" /\ pc = "grades_loop" /\ i < Len(grades)
    /\ LET item == grades[i + 1]
           count == ParseInt(item.count)
       IN  IF count.ok
           THEN /\ grade_counts' = GradeAdd(grade_counts, item.boro, item.grade, count.val)
                /\ grades' = [grades EXCEPT ![i + 1].grade = Upper(@)]
                /\ i' = i + 1
                /\ UNCHANGED <<pc, err>>
           ELSE /\ pc' = "handled" /\ err' = "ValueError"
                /\ UNCHANGED <<grade_counts, grades, i>>
    /\ UNCHANGED <<script, file_exists, complaints, shown, files,
                   htmlVars, todo, category_counts, runVars>>
    /\ UNCHANGED <<borough_totals, sorted_boroughs, city_order, borough_data,
                   top_complaints, fetched, dirs>>
    /\ UNCHANGED <<requests, sections, entered, printed_total, grand_total, sizes>>

\* one pass of "for item in grades"
GradesChartStep ==
    /\ script = "charts" /\ pc = "grades_loop" /\ i < Len(grades)
    /\ LET item == grades[i + 1]
           count == ParseInt(item.count)
       IN  IF count.ok
           THEN /\ grade_counts' = GradeAdd(grade_counts, item.boro, item.grade, count.val)
                /\ i' = i + 1
                /\ UNCHANGED <<pc, err>>
           ELSE /\ pc' = "handled" /\ err' = "ValueError"
                /\ UNCHANGED <<grade_counts, i>>
    /\ UNCHANGED <<script, file_exists, complaints, grades, shown, files,
                   htmlVars, todo, category_counts, runVars>>
    /\ UNCHANGED <<borough_totals, sorted_boroughs, city_order, borough_data, top_complaints, fetched, dirs>>
    /\ UNCHANGED <<requests, sections, entered, printed_total, grand_total, sizes>>

\* the stacked bars are drawn and saved
GradesChartSave ==
    /\ script = "charts" /\ pc = "grades_loop" /\ i = Len(grades)
    /\ files' = files \cup {"visualizations/restaurant_grades_chart.png"}
    /\ todo' = Tail(todo)
    /\ pc' = "next"
    /\ UNCHANGED <<script, file_exists, err, complaints, grades, i, shown,
                   htmlVars, grade_counts, category_counts, runVars>>
    /\ UNCHANGED <<borough_totals, sorted_boroughs, city_order, borough_data, top_complaints, fetched, dirs>>
    /\ UNCHANGED <<requests, sections, entered, printed_total, grand_total, sizes>>

\* create_grade_distribution_pie
GradePie ==
    /\ Calling("create_grade_distribution_pie")
    /\ IF grades = <<>>
       THEN todo' = Tail(todo) /\ UNCHANGED <<pc, err, files, sizes>>
       ELSE IF ~PieCountsConvert(grades)
       THEN pc' = "handled" /\ err' = "ValueError" /\ UNCHANGED <<todo, files, sizes>>
       ELSE /\ sizes' = << GradeTotal(grades, <<"A">>), GradeTotal(grades, <<"B">>),
                           GradeTotal(grades, <<"C">>) >>
            /\ \E raises \in PieRaises(grades) :
                  IF raises
                  THEN pc' = "handled" /\ err' = "ValueError" /\ UNCHANGED <<todo, files>>
                  ELSE /\ files' = files \cup {"visualizations/grade_distribution_pie.png"}
                       /\ todo' = Tail(todo)
                       /\ UNCHANGED <<pc, err>>
    /\ UNCHANGED <<script, file_exists, complaints, grades, i, shown,
                   htmlVars, grade_counts, category_counts, runVars>>
    /\ UNCHANGED <<borough_totals, sorted_boroughs, city_order, borough_data, top_complaints, fetched, dirs>>
    /\ UNCHANGED <<requests, sections, entered, printed_total, grand_total>>

\* create_complaint_categories_chart up to its loop
CategoriesChartBegin ==
    /\ Calling("create_complaint_categories_chart")
    /\ IF complaints = <<>>
       THEN todo' = Tail(todo) /\ UNCHANGED <<pc, i, category_counts>>
       ELSE /\ category_counts' = NewCategoryCounts
            /\ i' = 0
            /\ pc' = "categories_loop"
            /\ todo' = todo
    /\ UNCHANGED <<script, file_exists, err, complaints, grades, shown, files,
                   htmlVars, grade_counts, runVars>>
    /\ UNCHANGED <<borough_totals, sorted_boroughs, city_order, borough_data, top_complaints, fetched, dirs>>
    /\ UNCHANGED <<requests, sections, entered, printed_total, grand_total, sizes>>

\* one pass of "for complaint in complaints"
CategoriesChartStep ==
    /\ script = "charts" /\ pc = "categories_loop" /\ i < Len(complaints)
    /\ LET complaint == complaints[i + 1]
           count == ParseInt(complaint.count)
       IN  IF ~count.ok
           THEN /\ pc' = "handled" /\ err' = "ValueError"
                /\ UNCHANGED <<category_counts, i>>
           ELSE IF ~HasKey(category_counts, BucketOf(complaint.complaint_type))
           THEN /\ pc' = "handled" /\ err' = "KeyError"
                /\ UNCHANGED <<category_counts, i>>
           ELSE /\ category_counts' =
                       CategoryAdd(category_counts, complaint.complaint_type, count.val)
                /\ i' = i + 1
                /\ UNCHANGED <<pc, err>>
    /\ UNCHANGED <<script, file_exists, complaints, grades, shown, files,
                   htmlVars, todo, grade_counts, runVars>>
    /\ UNCHANGED <<borough_totals, sorted_boroughs, city_order, borough_data, top_complaints, fetched, dirs>>
    /\ UNCHANGED <<requests, sections, entered, printed_total, grand_total, sizes>>

\* the category bars are drawn and saved
CategoriesChartSave ==
    /\ script = "charts" /\ pc = "categories_loop" /\ i = Len(complaints)
    /\ files' = files \cup {"visualizations/complaint_categories_chart.png"}
    /\ todo' = Tail(todo)
    /\ pc' = "next"
    /\ UNCHANGED <<script, file_exists, err, complaints, grades, i, shown,
                   htmlVars, grade_counts, category_counts, runVars>>
    /\ UNCHANGED <<borough_totals, sorted_boroughs, city_order, borough_data, top_complaints, fetched, dirs>>
    /\ UNCHANGED <<requests, sections, entered, printed_total, grand_total, sizes>>

\* create_borough_comparison_chart
BoroughChart ==
    /\ Calling("create_borough_comparison_chart")
    /\ IF grades = <<>>
       THEN /\ todo' = Tail(todo)
            /\ UNCHANGED <<pc, err, files, borough_totals, sorted_boroughs>>
       ELSE IF ~AllCountsConvert(grades)
       THEN /\ pc' = "handled" /\ err' = "ValueError"
            /\ UNCHANGED <<todo, files, borough_totals, sorted_boroughs>>
       ELSE /\ borough_totals' = BoroughTotals(grades)
            /\ sorted_boroughs' = SortedReverse(BoroughTotals(grades))
            /\ files' = files \cup {"visualizations/borough_comparison_chart.png"}
            /\ todo' = Tail(todo)
            /\ UNCHANGED <<pc, err>>
    /\ UNCHANGED <<script, file_exists, complaints, grades, i, shown,
                   htmlVars, grade_counts, category_counts, runVars>>
    /\ UNCHANGED <<city_order, borough_data, top_complaints, fetched, dirs>>
    /\ UNCHANGED <<requests, sections, entered, printed_total, grand_total, sizes>>

\* create_summary_dashboard: its three panels, then the file
SummaryDashboard ==
    /\ Calling("create_summary_dashboard")
    /\ IF \/ ~AllCountsConvert(Take(complaints, 5))
          \/ ~PieCountsConvert(grades)
       THEN /\ pc' = "handled" /\ err' = "ValueError"
            /\ UNCHANGED <<todo, files, top_complaints, borough_totals, sorted_boroughs>>
       ELSE \E raises \in (IF grades = <<>> THEN {FALSE} ELSE PieRaises(grades)) :
               IF raises \/ ~AllCountsConvert(grades)
               THEN /\ pc' = "handled" /\ err' = "ValueError"
                    /\ UNCHANGED <<todo, files, top_complaints, borough_totals,
                                   sorted_boroughs>>
               ELSE /\ top_complaints' =
                           IF complaints = <<>> THEN top_complaints
                           ELSE [n |-> 5, rows |-> Take(complaints, 5)]
                    /\ borough_totals' =
                           IF grades = <<>> THEN borough_totals ELSE BoroughTotals(grades)
                    /\ sorted_boroughs' =
                           IF grades = <<>> THEN sorted_boroughs
                           ELSE SortedReverse(BoroughTotals(grades))
                    /\ files' = files \cup {"visualizations/dashboard.png"}
                    /\ todo' = Tail(todo)
                    /\ UNCHANGED <<pc, err>>
    /\ UNCHANGED <<script, file_exists, complaints, grades, i, shown,
                   htmlVars, grade_counts, category_counts, runVars>>
    /\ UNCHANGED <<city_order, borough_data, fetched, dirs>>
    /\ UNCHANGED <<requests, sections, entered, printed_total, grand_total, sizes>>

\* every call returned: "All visualizations created successfully"
ChartsFinish ==
    /\ script = "charts" /\ pc = "next" /\ todo = <<>>
    /\ pc' = "done"
    /\ UNCHANGED <<script, file_exists, err, complaints, grades, i, shown, files,
                   htmlVars, chartVars, runVars>>
    /\ UNCHANGED <<borough_totals, sorted_boroughs, city_order, borough_data, top_complaints, fetched, dirs>>
    /\ UNCHANGED <<requests, sections, entered, printed_total, grand_total, sizes>>

-----------------------------------------------------------------------------
(* examples/real_data_analysis.py                                          *)

\* the cities dict of fetch_city_comparison, in insertion order
CityNames == <<"New York City", "Los Angeles", "Chicago", "Houston", "Phoenix">>

\* the dcid of each city of the cities dict, and the one of fetch_nyc_population
CityDcids == <<"geoId/3651000", "geoId/0644000", "geoId/1714000", "geoId/4835000",
               "geoId/0550000">>

\* one call of urllib.request.urlopen: the fetch operation that made it, the dataset
\* or entity its URL names, and whether it returned
Request(op, url, ok) == [op |-> op, url |-> url, ok |-> ok]

\* answers of the Data Commons endpoint to one request: the 2022 value, a body
\* without it, or a failed request
Answer(status, population) == [status |-> status, population |-> population]

\* the sampled answers of Data Commons in one run: to fetch_nyc_population, then to
\* the five requests of fetch_city_comparison
DataCommonsAnswers ==
    { [pop |-> Answer("ok", 8),
       cities |-> << Answer("ok", 8), Answer("ok", 4), Answer("ok", 3),
                     Answer("ok", 2), Answer("ok", 2) >>],
      [pop |-> Answer("ok", 8),
       cities |-> << Answer("ok", 8), Answer("error", 0), Answer("ok", 3),
                     Answer("missing", 0), Answer("ok", 2) >>],
      [pop |-> Answer("missing", 0),
       cities |-> << Answer("missing", 0), Answer("ok", 4), Answer("ok", 4),
                     Answer("ok", 2), Answer("error", 0) >>],
      [pop |-> Answer("error", 0),
       cities |-> << Answer("error", 0), Answer("error", 0), Answer("error", 0),
                     Answer("error", 0), Answer("error", 0) >>],
      [pop |-> Answer("ok", 8),
       cities |-> << Answer("ok", 0), Answer("error", 0), Answer("error", 0),
                     Answer("error", 0), Answer("error", 0) >>] }

\* the answers of the Socrata endpoint in one run: each query answers with a list
\* of records, or the request fails
SocrataAnswers ==
    {[c311 |-> [ok |-> TRUE, data |-> p[1]], grades |-> [ok |-> TRUE, data |-> p[2]]] :
        p \in ResultSets}
    \cup {[c311 |-> [ok |-> FALSE, data |-> <<>>], grades |-> [ok |-> TRUE, data |-> g]] :
        g \in SeqsUpTo(GradeRecords, MaxRecords)}
    \cup {[c311 |-> [ok |-> TRUE, data |-> c], grades |-> [ok |-> FALSE, data |-> <<>>]] :
        c \in SeqsUpTo(ComplaintRecords, MaxRecords)}
    \cup {[c311 |-> [ok |-> FALSE, data |-> <<>>], grades |-> [ok |-> FALSE, data |-> <<>>]]}

\* the Data Commons run in which every request is answered with a value
AllAnswered ==
    [pop |-> Answer("ok", 8),
     cities |-> << Answer("ok", 8), Answer("ok", 4), Answer("ok", 3),
                   Answer("ok", 2), Answer("ok", 2) >>]

\* the answers of one run: every sampled Data Commons run beside the Socrata
\* answers of fewer than MaxRecords records, the all-answered one beside the rest
\* (no step reads records and populations together)
NetAnswers ==
    {[c311 |-> p[1].c311, grades |-> p[1].grades, pop |-> p[2].pop, cities |-> p[2].cities] :
        p \in {q \in SocrataAnswers \X DataCommonsAnswers :
                  \/ Len(q[1].c311.data) + Len(q[1].grades.data) < MaxRecords
                  \/ q[2] = AllAnswered}}

\* a dict: {} or {"population": p, ...}
NoDict == [k \in {} |-> 0]

\* borough_data after the loop of analyze_restaurant_grades: a defaultdict keyed by
\* whatever boro strings occur, each with cells A, B, C and other
RECURSIVE BoroughData(_)
BoroughData(records) ==
    IF records = <<>> THEN [b \in {} |-> 0]
    ELSE LET n == Len(records)
             before == BoroughData(SubSeq(records, 1, n - 1))
             item == records[n]
             grade == Upper(item.grade)
             cell == IF grade \in RecognizedGrades THEN grade ELSE <<"o", "t", "h", "e", "r">>
             fresh == [g \in RecognizedGrades \cup {<<"o", "t", "h", "e", "r">>} |-> 0]
             row == IF item.boro \in DOMAIN before THEN before[item.boro] ELSE fresh
         IN  [b \in DOMAIN before \cup {item.boro} |->
                 IF b = item.boro
                 THEN [row EXCEPT ![cell] = @ + ParseInt(item.count).val]
                 ELSE before[b]]

\* sum(data[g] for data in borough_data.values())
RECURSIVE SumColumn(_, _, _)
SumColumn(data, g, keys) ==
    IF keys = {} THEN 0
    ELSE LET b == CHOOSE x \in keys : TRUE
         IN  data[b][g] + SumColumn(data, g, keys \ {b})

\* total = sum(data.values()) of one row of borough_data
RowTotal(data) ==
    data[<<"A">>] + data[<<"B">>] + data[<<"C">>] + data[<<"o", "t", "h", "e", "r">>]

Percent(what, part, whole) ==
    [what |-> what, part |-> part, whole |-> whole, value |-> PercentTenths(part, whole)]

\* the value the top-complaint share is given when the total is not positive
ZeroPercent(what, part, whole) ==
    [what |-> what, part |-> part, whole |-> whole, value |-> 0]

analysisIdle == <<script, file_exists, i, files, htmlVars, chartVars>>

\* variant: the request is made outside any try, its failure leaves run_analysis
Fetch311Propagates ==
    /\ script = "analysis" /\ pc = "start"
    /\ IF net.c311.ok
       THEN /\ complaints' = net.c311.data
            /\ fetched' = Append(fetched, "fetch_311_complaints")
            /\ pc' = "fetch_grades" /\ UNCHANGED <<failed, err>>
       ELSE /\ failed' = failed \cup {"fetch_311_complaints"}
            /\ pc' = "crashed" /\ err' = "URLError"
            /\ UNCHANGED <<complaints, fetched>>
    /\ UNCHANGED <<analysisIdle, net, grades, nyc_pop, cities, results, done, shown>>
    /\ UNCHANGED <<borough_totals, sorted_boroughs, city_order, borough_data,
                   top_complaints, dirs>>
    /\ requests' = Append(requests, Request("fetch_311_complaints", "erm2-nwe9", net.c311.ok))
    /\ UNCHANGED <<sections, entered, printed_total, grand_total, sizes>>

\* fetch_311_complaints: one request; a failure is printed and turned into []
Fetch311 ==
    /\ script = "analysis" /\ pc = "start"
    /\ IF net.c311.ok
       THEN complaints' = net.c311.data /\ failed' = failed
       ELSE complaints' = <<>> /\ failed' = failed \cup {"fetch_311_complaints"}
    /\ fetched' = Append(fetched, "fetch_311_complaints")
    /\ pc' = "fetch_grades"
    /\ UNCHANGED <<analysisIdle, err, net, grades, nyc_pop, cities, results, done, shown>>
    /\ UNCHANGED <<borough_totals, sorted_boroughs, city_order, borough_data, top_complaints, dirs>>
    /\ requests' = Append(requests, Request("fetch_311_complaints", "erm2-nwe9", net.c311.ok))
    /\ UNCHANGED <<sections, entered, printed_total, grand_total, sizes>>

\* variant: a failed request is made a second time before [] is returned
FetchGradesRetries ==
    /\ script = "analysis" /\ pc = "fetch_grades"
    /\ IF net.grades.ok
       THEN grades' = net.grades.data /\ failed' = failed
       ELSE grades' = <<>> /\ failed' = failed \cup {"fetch_restaurant_grades"}
    /\ fetched' = Append(fetched, "fetch_restaurant_grades")
    /\ pc' = "fetch_population"
    /\ UNCHANGED <<analysisIdle, err, net, complaints, nyc_pop, cities, results, done, shown>>
    /\ UNCHANGED <<borough_totals, sorted_boroughs, city_order, borough_data, top_complaints, dirs>>
    /\ requests' = IF net.grades.ok
                   THEN Append(requests, Request("fetch_restaurant_grades", "43nn-pn8j", TRUE))
                   ELSE requests \o << Request("fetch_restaurant_grades", "43nn-pn8j", FALSE),
                                      Request("fetch_restaurant_grades", "43nn-pn8j", FALSE) >>
    /\ UNCHANGED <<sections, entered, printed_total, grand_total, sizes>>

\* fetch_restaurant_grades: one request; a failure is printed and turned into []
FetchGrades ==
    /\ script = "analysis" /\ pc = "fetch_grades"
    /\ IF net.grades.ok
       THEN grades' = net.grades.data /\ failed' = failed
       ELSE grades' = <<>> /\ failed' = failed \cup {"fetch_restaurant_grades"}
    /\ fetched' = Append(fetched, "fetch_restaurant_grades")
    /\ pc' = "fetch_population"
    /\ UNCHANGED <<analysisIdle, err, net, complaints, nyc_pop, cities, results, done, shown>>
    /\ UNCHANGED <<borough_totals, sorted_boroughs, city_order, borough_data, top_complaints, dirs>>
    /\ requests' = Append(requests, Request("fetch_restaurant_grades", "43nn-pn8j", net.grades.ok))
    /\ UNCHANGED <<sections, entered, printed_total, grand_total, sizes>>

\* fetch_nyc_population: one request; a failure or a body without the value gives {}
FetchPopulation ==
    /\ script = "analysis" /\ pc = "fetch_population"
    /\ nyc_pop' = IF net.pop.status = "ok"
                  THEN [population |-> net.pop.population, year |-> 2022]
                  ELSE NoDict
    /\ failed' = IF net.pop.status = "error"
                 THEN failed \cup {"fetch_nyc_population"} ELSE failed
    /\ fetched' = Append(fetched, "fetch_nyc_population")
    /\ cities' = NoDict
    /\ i' = 0
    /\ pc' = "fetch_cities"
    /\ UNCHANGED <<script, file_exists, files, htmlVars, chartVars,
                   err, net, complaints, grades, results, done, shown>>
    /\ UNCHANGED <<borough_totals, sorted_boroughs, city_order, borough_data, top_complaints, dirs>>
    /\ requests' = Append(requests,
           Request("fetch_nyc_population", "geoId/3651000", net.pop.status # "error"))
    /\ UNCHANGED <<sections, entered, printed_total, grand_total, sizes>>

\* variant: the try encloses the loop, the first failed request ends it
FetchCityAborts ==
    /\ script = "analysis" /\ pc = "fetch_cities" /\ i < Len(CityNames)
    /\ LET answer == net.cities[i + 1]
           city_name == CityNames[i + 1]
       IN  /\ cities' = IF answer.status = "ok"
                        THEN [c \in DOMAIN cities \cup {city_name} |->
                                 IF c = city_name THEN answer.population ELSE cities[c]]
                        ELSE cities
           /\ failed' = IF answer.status = "error"
                        THEN failed \cup {"fetch_city_comparison"} ELSE failed
           /\ i' = IF answer.status = "error" THEN Len(CityNames) ELSE i + 1
    /\ UNCHANGED <<script, file_exists, files, htmlVars, chartVars,
                   pc, err, net, complaints, grades, nyc_pop, results, done, shown>>
    /\ UNCHANGED <<borough_totals, sorted_boroughs, city_order, borough_data,
                   top_complaints, fetched, dirs>>
    /\ requests' = Append(requests,
           Request("fetch_city_comparison", CityDcids[i + 1],
                   net.cities[i + 1].status # "error"))
    /\ UNCHANGED <<sections, entered, printed_total, grand_total, sizes>>

\* one pass of "for city_name, dcid in cities.items()": one request, its failure
\* printed inside the loop
FetchCity ==
    /\ script = "analysis" /\ pc = "fetch_cities" /\ i < Len(CityNames)
    /\ LET answer == net.cities[i + 1]
           city_name == CityNames[i + 1]
       IN  /\ cities' = IF answer.status = "ok"
                        THEN [c \in DOMAIN cities \cup {city_name} |->
                                 IF c = city_name THEN answer.population ELSE cities[c]]
                        ELSE cities
           /\ failed' = IF answer.status = "error"
                        THEN failed \cup {"fetch_city_comparison"} ELSE failed
    /\ i' = i + 1
    /\ UNCHANGED <<script, file_exists, files, htmlVars, chartVars,
                   pc, err, net, complaints, grades, nyc_pop, results, done, shown>>
    /\ UNCHANGED <<borough_totals, sorted_boroughs, city_order, borough_data, top_complaints, fetched, dirs>>
    /\ requests' = Append(requests,
           Request("fetch_city_comparison", CityDcids[i + 1],
                   net.cities[i + 1].status # "error"))
    /\ UNCHANGED <<sections, entered, printed_total, grand_total, sizes>>

\* the loop over the cities is over: fetch_city_comparison returns
FetchCityReturn ==
    /\ script = "analysis" /\ pc = "fetch_cities" /\ i = Len(CityNames)
    /\ fetched' = Append(fetched, "fetch_city_comparison")
    /\ pc' = "store"
    /\ UNCHANGED <<analysisIdle, err, net, failed, complaints, grades, nyc_pop, cities,
                   results, done, shown>>
    /\ UNCHANGED <<borough_totals, sorted_boroughs, city_order, borough_data,
                   top_complaints, dirs>>
    /\ UNCHANGED <<requests, sections, entered, printed_total, grand_total, sizes>>

\* run_analysis stores the four results
StoreResults ==
    /\ script = "analysis" /\ pc = "store"
    /\ results' = [c311 |-> complaints, restaurant_grades |-> grades,
                   nyc_population |-> nyc_pop, city_comparison |-> cities]
    /\ pc' = "analyze_311"
    /\ UNCHANGED <<analysisIdle, err, net, failed, complaints, grades, nyc_pop, cities,
                   done, shown>>
    /\ UNCHANGED <<borough_totals, sorted_boroughs, city_order, borough_data,
                   top_complaints, fetched, dirs>>
    /\ UNCHANGED <<requests, sections, entered, printed_total, grand_total, sizes>>

\* analyze_311_complaints
Analyze311 ==
    /\ script = "analysis" /\ pc = "analyze_311"
    /\ IF complaints = <<>>
       THEN pc' = "analyze_grades" /\ UNCHANGED <<err, shown>>
       ELSE IF ~AllCountsConvert(complaints)
       THEN pc' = "crashed" /\ err' = "ValueError" /\ shown' = shown
       ELSE LET total == SumSeq(IntCounts(complaints))
                top_count == IntCounts(complaints)[1]
            IN  /\ shown' = Append(shown,
                       IF total > 0 THEN Percent("top_complaint_share", top_count, total)
                       ELSE ZeroPercent("top_complaint_share", top_count, total))
                /\ pc' = "analyze_grades" /\ err' = err
    /\ top_complaints' = IF complaints = <<>> THEN top_complaints
                          ELSE [n |-> 10, rows |-> Take(complaints, 10)]
    /\ done' = IF pc' = "crashed" THEN done ELSE Append(done, "analyze_311_complaints")
    /\ UNCHANGED <<analysisIdle, net, failed, complaints, grades, nyc_pop, cities, results>>
    /\ UNCHANGED <<borough_totals, sorted_boroughs, city_order, borough_data, fetched, dirs>>
    /\ UNCHANGED <<requests, sections, entered, printed_total, grand_total, sizes>>

\* analyze_restaurant_grades
AnalyzeGrades ==
    /\ script = "analysis" /\ pc = "analyze_grades"
    /\ IF grades = <<>>
       THEN /\ pc' = "analyze_population"
            /\ UNCHANGED <<err, shown, borough_data, printed_total, grand_total, sizes>>
       ELSE IF ~AllCountsConvert(grades)
       THEN /\ pc' = "crashed" /\ err' = "ValueError"
            /\ UNCHANGED <<shown, borough_data, printed_total, grand_total, sizes>>
       ELSE LET data == BoroughData(grades)
                total_a == SumColumn(data, <<"A">>, DOMAIN data)
                total_b == SumColumn(data, <<"B">>, DOMAIN data)
                total_c == SumColumn(data, <<"C">>, DOMAIN data)
            IN  /\ borough_data' = data
                /\ printed_total' = [b \in DOMAIN data |-> RowTotal(data[b])]
                /\ grand_total' = total_a + total_b + total_c
                /\ shown' = IF grand_total' > 0
                            THEN shown \o << Percent("grade_a", total_a, grand_total'),
                                             Percent("grade_b", total_b, grand_total'),
                                             Percent("grade_c", total_c, grand_total') >>
                            ELSE shown
                /\ pc' = "analyze_population" /\ err' = err
    /\ done' = IF pc' = "crashed" THEN done ELSE Append(done, "analyze_restaurant_grades")
    /\ UNCHANGED <<analysisIdle, net, failed, complaints, grades, nyc_pop, cities, results>>
    /\ UNCHANGED <<borough_totals, sorted_boroughs, city_order, top_complaints, fetched, dirs>>
    /\ UNCHANGED <<requests, sections, entered, sizes>>


\* sum(c['population'] for c in cities.values())
RECURSIVE SumValues(_, _)
SumValues(d, keys) ==
    IF keys = {} THEN 0
    ELSE LET k == CHOOSE x \in keys : TRUE
         IN  d[k] + SumValues(d, keys \ {k})

\* cities.items() from position k of the insertion order on, as <<name, population>>
RECURSIVE CityItems(_, _)
CityItems(d, k) ==
    IF k > Len(CityNames) THEN <<>>
    ELSE IF CityNames[k] \in DOMAIN d
    THEN <<<<CityNames[k], d[CityNames[k]]>>>> \o CityItems(d, k + 1)
    ELSE CityItems(d, k + 1)

\* nyc_pop.get('population', 0)
PopulationOf(d) == IF "population" \in DOMAIN d THEN d.population ELSE 0

\* analyze_population_comparison
AnalyzePopulation ==
    /\ script = "analysis" /\ pc = "analyze_population"
    /\ LET nyc_population == PopulationOf(nyc_pop)
           total_pop == SumValues(cities, DOMAIN cities)
       IN  IF DOMAIN cities = {} \/ nyc_population <= 0
           THEN pc' = "insights" /\ UNCHANGED <<err, shown>>
           ELSE IF total_pop = 0
           THEN pc' = "crashed" /\ err' = "ZeroDivisionError" /\ shown' = shown
           ELSE /\ shown' = Append(shown, Percent("nyc_share", nyc_population, total_pop))
                /\ pc' = "insights" /\ err' = err
    /\ city_order' = IF DOMAIN cities = {} THEN city_order
                      ELSE LET ranked == SortedReverse(CityItems(cities, 1))
                           IN  [k \in 1..Len(ranked) |-> ranked[k][1]]
    /\ done' = IF pc' = "crashed" THEN done
               ELSE Append(done, "analyze_population_comparison")
    /\ UNCHANGED <<analysisIdle, net, failed, complaints, grades, nyc_pop, cities, results>>
    /\ UNCHANGED <<borough_totals, sorted_boroughs, borough_data, top_complaints, fetched, dirs>>
    /\ UNCHANGED <<requests, sections, entered, printed_total, grand_total, sizes>>

\* variant: the share is taken of the restaurants graded A, B or C
CombinedInsightsGraded ==
    /\ script = "analysis" /\ pc = "insights"
    /\ LET total_restaurants == GradeTotal(grades, <<"A">>) + GradeTotal(grades, <<"B">>)
                                + GradeTotal(grades, <<"C">>)
           grade_a == GradeTotal(grades, <<"A">>)
       IN  shown' = IF grades # <<>> /\ total_restaurants > 0
                    THEN Append(shown, Percent("grade_a_of_all", grade_a, total_restaurants))
                    ELSE shown
    /\ done' = Append(done, "create_combined_insights")
    /\ pc' = "save"
    /\ UNCHANGED <<analysisIdle, err, net, failed, complaints, grades, nyc_pop, cities,
                   results>>
    /\ UNCHANGED <<borough_totals, sorted_boroughs, city_order, borough_data, top_complaints, fetched, dirs>>
    /\ UNCHANGED <<requests, sections, entered, printed_total, grand_total, sizes>>

\* create_combined_insights
CombinedInsights ==
    /\ script = "analysis" /\ pc = "insights"
    /\ LET total_restaurants == SumSeq(IntCounts(grades))
           grade_a == GradeTotal(grades, <<"A">>)
       IN  shown' = IF grades # <<>> /\ total_restaurants > 0
                    THEN Append(shown, Percent("grade_a_of_all", grade_a, total_restaurants))
                    ELSE shown
    /\ done' = Append(done, "create_combined_insights")
    /\ pc' = "save"
    /\ UNCHANGED <<analysisIdle, err, net, failed, complaints, grades, nyc_pop, cities,
                   results>>
    /\ UNCHANGED <<borough_totals, sorted_boroughs, city_order, borough_data, top_complaints, fetched, dirs>>
    /\ UNCHANGED <<requests, sections, entered, printed_total, grand_total, sizes>>

\* save_results writes self.results; run_analysis prints "Analysis Complete!"
SaveResults ==
    /\ script = "analysis" /\ pc = "save"
    /\ files' = files \cup {"analysis_results.json"}
    /\ done' = Append(done, "save_results")
    /\ pc' = "done"
    /\ UNCHANGED <<script, file_exists, i, htmlVars, chartVars,
                   err, net, failed, complaints, grades, nyc_pop, cities, results, shown>>
    /\ UNCHANGED <<borough_totals, sorted_boroughs, city_order, borough_data, top_complaints, fetched, dirs>>
    /\ UNCHANGED <<requests, sections, entered, printed_total, grand_total, sizes>>

-----------------------------------------------------------------------------
(* examples/mcp_demo.py, examples/interactive_mcp_example.py,              *)
(* scripts/analyze_nyc_data.py: scripts that print their sections          *)

TutorialScripts == {"mcp_demo", "interactive_mcp_example", "analyze_nyc_data"}

\* mcp_demo.main: the functions called after the banner, an input() after each of
\* the first four
demo_sections ==
    << "demo_opengov_capabilities", "demo_datacommons_capabilities",
       "demo_combined_analysis", "demo_interactive_usage", "demo_advanced_features" >>

\* MCPExample.run_all_examples: the methods called after the banner, an input()
\* after each of the first six
example_sections ==
    << "example_1_311_top_complaints", "example_2_restaurant_grades",
       "example_3_housing_violations_trends", "example_4_population_comparison",
       "example_5_income_analysis", "example_6_combined_analysis",
       "example_7_dataset_discovery" >>

\* analyze_nyc_data.main: the functions called after the banner, with no input()
workflow_sections ==
    << "example_query_structure", "show_project_structure", "show_mcp_workflow",
       "show_next_steps" >>

SectionsOf(s) ==
    CASE s = "mcp_demo" -> demo_sections
      [] s = "interactive_mcp_example" -> example_sections
      [] s = "analyze_nyc_data" -> workflow_sections

\* the number of input() calls of the script
PromptsOf(s) ==
    CASE s = "mcp_demo" -> 4
      [] s = "interactive_mcp_example" -> 6
      [] s = "analyze_nyc_data" -> 0

\* the header of the last section
CompleteOf(s) ==
    CASE s = "mcp_demo" -> "Demo Complete!"
      [] s = "interactive_mcp_example" -> "Examples Complete!"
      [] s = "analyze_nyc_data" -> "Example Complete!"

\* variant: every section's print calls return
SectionRaisesNever(name) == FALSE

\* whether a print call of the section raises: example_7_dataset_discovery hands
\* json.dumps a list that ends in the Ellipsis object, a TypeError
SectionRaises(name) == name = "example_7_dataset_discovery"

\* the banner and the introduction
TutorialBanner ==
    /\ script \in TutorialScripts /\ pc = "start"
    /\ sections' = <<"banner">>
    /\ pc' = "section"
    /\ UNCHANGED <<script, file_exists, err, complaints, grades, i, shown, files,
                   htmlVars, chartVars, runVars>>
    /\ UNCHANGED <<borough_totals, sorted_boroughs, city_order, borough_data, top_complaints, fetched, dirs>>
    /\ UNCHANGED <<requests, entered, printed_total, grand_total, sizes>>

\* the next function is called: it prints its header and its text, and the script
\* goes on to the input() after it, if there is one
TutorialSection ==
    /\ script \in TutorialScripts /\ pc = "section"
    /\ Len(sections) <= Len(SectionsOf(script))
    /\ LET k == Len(sections)
           name == SectionsOf(script)[k]
       IN  /\ sections' = Append(sections, name)
           /\ IF SectionRaises(name)
              THEN pc' = "crashed" /\ err' = "TypeError"
              ELSE /\ pc' = IF k <= PromptsOf(script) THEN "prompt" ELSE "section"
                   /\ err' = err
    /\ UNCHANGED <<script, file_exists, complaints, grades, i, shown, files,
                   htmlVars, chartVars, runVars>>
    /\ UNCHANGED <<borough_totals, sorted_boroughs, city_order, borough_data, top_complaints, fetched, dirs>>
    /\ UNCHANGED <<requests, entered, printed_total, grand_total, sizes>>

\* input() returns: the user pressed Enter
TutorialEnter ==
    /\ script \in TutorialScripts /\ pc = "prompt"
    /\ entered' = entered + 1
    /\ pc' = "section"
    /\ UNCHANGED <<script, file_exists, err, complaints, grades, i, shown, files,
                   htmlVars, chartVars, runVars>>
    /\ UNCHANGED <<borough_totals, sorted_boroughs, city_order, borough_data, top_complaints, fetched, dirs>>
    /\ UNCHANGED <<requests, sections, printed_total, grand_total, sizes>>

\* input() raises EOFError: standard input has ended; main has no try
TutorialEndOfInput ==
    /\ script \in TutorialScripts /\ pc = "prompt"
    /\ err' = "EOFError"
    /\ pc' = "crashed"
    /\ UNCHANGED <<script, file_exists, complaints, grades, i, shown, files,
                   htmlVars, chartVars, runVars>>
    /\ UNCHANGED <<borough_totals, sorted_boroughs, city_order, borough_data, top_complaints, fetched, dirs>>
    /\ UNCHANGED <<requests, sections, entered, printed_total, grand_total, sizes>>

\* the last section and the closing text
TutorialComplete ==
    /\ script \in TutorialScripts /\ pc = "section"
    /\ Len(sections) = Len(SectionsOf(script)) + 1
    /\ sections' = Append(sections, CompleteOf(script))
    /\ pc' = "complete"
    /\ UNCHANGED <<script, file_exists, err, complaints, grades, i, shown, files,
                   htmlVars, chartVars, runVars>>
    /\ UNCHANGED <<borough_totals, sorted_boroughs, city_order, borough_data, top_complaints, fetched, dirs>>
    /\ UNCHANGED <<requests, entered, printed_total, grand_total, sizes>>

\* create_visualizations.py is started after create_html_visualizations.py has
\* ended, on the same analysis_results.json: files and directories stay, what the
\* first process computed is what its dashboard shows
ChartsAfterHtml ==
    /\ script = "html" /\ pc \in {"done", "handled"}
    /\ script' = "charts"
    /\ pc' = "start"
    /\ err' = "none"
    /\ i' = 0
    /\ shown' = <<>>
    /\ UNCHANGED <<file_exists, complaints, grades, files, htmlVars, chartVars, runVars>>
    /\ UNCHANGED <<borough_totals, sorted_boroughs, city_order, borough_data, top_complaints, fetched, dirs>>
    /\ UNCHANGED <<requests, sections, entered, printed_total, grand_total, sizes>>

-----------------------------------------------------------------------------
(* One invocation of one script.                                           *)

Init ==
    /\ script \in {"analysis", "charts", "html"} \cup TutorialScripts
    /\ IF script = "analysis"
       THEN /\ net \in NetAnswers
            /\ file_exists = FALSE
            /\ complaints = <<>> /\ grades = <<>>
       ELSE IF script \in TutorialScripts
       THEN /\ net = NoNet
            /\ file_exists = FALSE
            /\ complaints = <<>> /\ grades = <<>>
       ELSE /\ net = NoNet
            /\ file_exists \in BOOLEAN
            /\ \E p \in (IF file_exists THEN ResultSets ELSE {<< <<>>, <<>> >>}) :
                  complaints = p[1] /\ grades = p[2]
    /\ pc = "start"
    /\ err = "none"
    /\ failed = {}
    /\ nyc_pop = NoDict
    /\ cities = NoDict
    /\ results = NoDict
    /\ todo = <<>>
    /\ i = 0
    /\ grade_counts = Unset
    /\ category_counts = Unset
    /\ complaint_counts = <<>>
    /\ grade_data = Unset
    /\ totals = NoTotals
    /\ category_counts_html = Unset
    /\ shown = <<>>
    /\ done = <<>>
    /\ files = {}
    /\ dirs = {}
    /\ fetched = <<>>
    /\ top_complaints = Unset
    /\ borough_totals = <<>>
    /\ sorted_boroughs = <<>>
    /\ borough_data = Unset
    /\ city_order = <<>>
    /\ requests = <<>>
    /\ sections = <<>>
    /\ entered = 0
    /\ printed_total = Unset
    /\ grand_total = 0
    /\ sizes = <<>>

Next ==
    \/ HtmlLoad \/ HtmlPrepare \/ HtmlGradeStep \/ HtmlTotals \/ HtmlCategoryStep
    \/ HtmlRender \/ HtmlWrite \/ ChartsAfterHtml
    \/ ChartsLoad \/ ChartsBegin \/ Create311Chart
    \/ GradesChartBegin \/ GradesChartStep \/ GradesChartSave
    \/ GradePie
    \/ CategoriesChartBegin \/ CategoriesChartStep \/ CategoriesChartSave
    \/ BoroughChart \/ SummaryDashboard \/ ChartsFinish
    \/ Fetch311 \/ FetchGrades \/ FetchPopulation \/ FetchCity \/ FetchCityReturn
    \/ StoreResults
    \/ Analyze311 \/ AnalyzeGrades \/ AnalyzePopulation \/ CombinedInsights
    \/ SaveResults
    \/ TutorialBanner \/ TutorialSection \/ TutorialEnter \/ TutorialEndOfInput
    \/ TutorialComplete

Spec == Init /\ [][Next]_vars

-----------------------------------------------------------------------------
(* What the claims speak of, stated apart from the code's own operators.   *)

\* the bucket a complaint type belongs to by the configured match sets
ExpectedBucket(t) ==
    IF t \in {"HEAT/HOT WATER", "PLUMBING"} THEN "Infrastructure"
    ELSE IF t \in {"Noise - Residential", "Noise - Street/Sidewalk",
                   "Noise - Commercial", "Noise"} THEN "Noise"
    ELSE IF t \in {"Illegal Parking", "Blocked Driveway"} THEN "Parking"
    ELSE "Other"

\* the grade letter a grade string stands for, "" when it is none of A, B, C
ExpectedGrade(g) ==
    IF g \in {<<"A">>, <<"a">>} THEN <<"A">>
    ELSE IF g \in {<<"B">>, <<"b">>} THEN <<"B">>
    ELSE IF g \in {<<"C">>, <<"c">>} THEN <<"C">>
    ELSE <<>>

\* a count written as a non-negative decimal number
IsDecimal(s) == s # <<>> /\ \A k \in 1..Len(s) : s[k] \in DigitChars

\* the counts of the first n complaints that belong to bucket b, summed
RECURSIVE BucketSum(_, _, _)
BucketSum(records, n, b) ==
    IF n = 0 THEN 0
    ELSE (IF ExpectedBucket(records[n].complaint_type) = b
          THEN ParseInt(records[n].count).val ELSE 0) + BucketSum(records, n - 1, b)

\* the counts of the first n grade records of borough b and grade letter g, summed
RECURSIVE CellSum(_, _, _, _)
CellSum(records, n, b, g) ==
    IF n = 0 THEN 0
    ELSE (IF records[n].boro = b /\ ExpectedGrade(records[n].grade) = g
          THEN ParseInt(records[n].count).val ELSE 0) + CellSum(records, n - 1, b, g)

\* the category loop of either visualizer is in progress or over
CategoryLoopOver ==
    \/ script = "charts" /\ category_counts # Unset
          /\ pc # "categories_loop" /\ i = Len(complaints)
    \/ script = "html" /\ category_counts_html # Unset
          /\ pc # "category_loop" /\ i = Len(complaints)

\* the grade loop of either visualizer is in progress
InGradeLoop ==
    \/ script = "charts" /\ pc = "grades_loop"
    \/ script = "html" /\ pc = "grade_loop"

\* the table the running visualizer's grade loop fills
GradeTable == IF script = "charts" THEN grade_counts ELSE grade_data

\* the dict the running visualizer's category loop fills
CategoryTable == IF script = "charts" THEN category_counts ELSE category_counts_html

InCategoryLoop ==
    \/ script = "charts" /\ pc = "categories_loop"
    \/ script = "html" /\ pc = "category_loop"

-----------------------------------------------------------------------------
(* C1: category aggregation conserves counts.  At every point of the       *)
(* category loop of either visualizer the bucket totals sum to the sum of  *)
(* the integer counts of the records processed so far, hence to the sum of *)
(* all input counts once the loop is over; and each pass of the loop adds  *)
(* the record's count to exactly one bucket and leaves the others alone.   *)
C1_SumConserved ==
    CategoryTable # Unset =>
        SumValues(CategoryTable, DOMAIN CategoryTable)
            = SumSeq(IntCounts(Take(complaints, i)))

C1_OneBucketPerRecord ==
    (InCategoryLoop /\ i' = i + 1) =>
        \E b \in DOMAIN CategoryTable :
            CategoryTable' =
                [CategoryTable EXCEPT ![b] = @ + ParseInt(complaints[i + 1].count).val]

C1_CountsConserved == []C1_SumConserved /\ [][C1_OneBucketPerRecord]_vars

\* the loop is over for a list of three records that fell into three buckets
C1_Witness ==
    /\ CategoryLoopOver
    /\ Len(complaints) = 3
    /\ Cardinality({b \in DOMAIN CategoryTable : CategoryTable[b] # 0}) = 3
    /\ SumValues(CategoryTable, DOMAIN CategoryTable) = SumSeq(IntCounts(complaints))

-----------------------------------------------------------------------------
(* C2: every record is counted in the first bucket, in the order           *)
(* Infrastructure, Noise, Parking, Other, whose match set holds its        *)
(* complaint_type exactly, and in Other when none does; counts given as    *)
(* decimal strings are converted first, so that Noise "5", HEAT/HOT WATER  *)
(* "3", Weird "2" gives Infrastructure 3, Noise 5, Other 2.                *)
ScenarioComplaints ==
    << [complaint_type |-> "Noise",          count |-> <<"5">>],
       [complaint_type |-> "HEAT/HOT WATER", count |-> <<"3">>],
       [complaint_type |-> "Weird",          count |-> <<"2">>] >>

ScenarioCategoryCounts ==
    [c \in {"Infrastructure", "Noise", "Parking", "Other"} |->
        CASE c = "Infrastructure" -> 3 [] c = "Noise" -> 5
          [] c = "Parking" -> 0 [] c = "Other" -> 2]

C2_FirstMatchingBucket ==
    /\ CategoryTable # Unset =>
          \A b \in {"Infrastructure", "Noise", "Parking", "Other"} :
              b \in DOMAIN CategoryTable
                  /\ CategoryTable[b] = BucketSum(complaints, i, b)
    /\ (CategoryLoopOver /\ complaints = ScenarioComplaints) =>
          CategoryTable = ScenarioCategoryCounts

\* the scenario's list has been aggregated
C2_Witness ==
    /\ CategoryLoopOver
    /\ complaints = ScenarioComplaints
    /\ CategoryTable = ScenarioCategoryCounts

\* a type that differs from a configured one only in case went to Other
C2_WitnessExactMatch ==
    /\ CategoryLoopOver
    /\ \E k \in 1..Len(complaints) : complaints[k].complaint_type = "noise"
    /\ CategoryTable["Other"] # 0

-----------------------------------------------------------------------------
(* C3: at every point of the category aggregation the keys of the result   *)
(* are exactly Infrastructure, Noise, Parking and Other, and a bucket no   *)
(* processed record belongs to holds zero.                                 *)
C3_AllBucketsPresent ==
    CategoryTable # Unset =>
        /\ DOMAIN CategoryTable = {"Infrastructure", "Noise", "Parking", "Other"}
        /\ \A b \in DOMAIN CategoryTable :
              (\A k \in 1..i : ExpectedBucket(complaints[k].complaint_type) # b)
                  => CategoryTable[b] = 0

\* the loop is over and left two buckets at zero beside a filled one
C3_Witness ==
    /\ CategoryLoopOver
    /\ complaints # <<>>
    /\ Cardinality({b \in DOMAIN CategoryTable : CategoryTable[b] = 0}) >= 2
    /\ \E b \in DOMAIN CategoryTable : CategoryTable[b] # 0

-----------------------------------------------------------------------------
(* C4: the borough/grade table is dense.  From its creation on it has      *)
(* exactly the 5 * 3 = 15 cells of {Manhattan, Brooklyn, Queens, Bronx,    *)
(* Staten Island} x {A, B, C}; no pass of the loop adds or removes a cell, *)
(* and a cell no processed record matches holds zero.                      *)
FiveBoroughs == {"Manhattan", "Brooklyn", "Queens", "Bronx", "Staten Island"}

Cells(table) == {<<b, g>> : b \in DOMAIN table, g \in UNION {DOMAIN table[x] : x \in DOMAIN table}}

C4_DenseTable ==
    GradeTable # Unset =>
        /\ DOMAIN GradeTable = FiveBoroughs
        /\ \A b \in DOMAIN GradeTable : DOMAIN GradeTable[b] = {<<"A">>, <<"B">>, <<"C">>}
        /\ Cardinality(Cells(GradeTable)) = 15
        /\ InGradeLoop =>
              \A b \in FiveBoroughs, g \in {<<"A">>, <<"B">>, <<"C">>} :
                  (\A k \in 1..i : ~(grades[k].boro = b /\ ExpectedGrade(grades[k].grade) = g))
                      => GradeTable[b][g] = 0

\* the loop is over, it met a record of an unknown borough and filled one cell
C4_Witness ==
    /\ InGradeLoop /\ i = Len(grades)
    /\ \E k \in 1..Len(grades) : grades[k].boro \notin FiveBoroughs
    /\ Cardinality({c \in Cells(GradeTable) : GradeTable[c[1]][c[2]] = 0}) = 14

-----------------------------------------------------------------------------
(* C5: the grade is upper-cased before it is matched.  At every point of   *)
(* the grade loop each cell (borough, letter) holds the sum of the counts  *)
(* of the processed records of that borough whose grade is that letter in  *)
(* either case; records (Manhattan, "a", "10") and (Mars, "A", "5") give   *)
(* (Manhattan, A) = 10 and every other cell 0.                             *)
ScenarioGrades ==
    << [boro |-> "Manhattan", grade |-> <<"a">>, count |-> <<"1", "0">>],
       [boro |-> "Mars",      grade |-> <<"A">>, count |-> <<"5">>] >>

C5_GradeUppercased ==
    InGradeLoop =>
        /\ \A b \in FiveBoroughs, g \in {<<"A">>, <<"B">>, <<"C">>} :
              GradeTable[b][g] = CellSum(grades, i, b, g)
        /\ (i = Len(grades) /\ grades = ScenarioGrades) =>
              \A b \in FiveBoroughs, g \in {<<"A">>, <<"B">>, <<"C">>} :
                  GradeTable[b][g] = IF b = "Manhattan" /\ g = <<"A">> THEN 10 ELSE 0

\* the scenario's two records have been aggregated
C5_Witness ==
    /\ InGradeLoop /\ i = Len(grades)
    /\ grades = ScenarioGrades
    /\ GradeTable["Manhattan"][<<"A">>] = 10

-----------------------------------------------------------------------------
(* C6: a pass of the grade loop over a record whose borough is not one of  *)
(* the five or whose grade is none of A, B, C in either case (its count an *)
(* integer, as a GradeRecord's is) changes no cell and raises nothing, and *)
(* the loop goes on with the next record.                                  *)
IsIntegerText(s) ==
    \/ IsDecimal(s)
    \/ s # <<>> /\ Head(s) = "-" /\ IsDecimal(Tail(s))

Unmatched(item) == item.boro \notin FiveBoroughs \/ ExpectedGrade(item.grade) = <<>>

C6_UnmatchedStep ==
    (/\ InGradeLoop /\ i < Len(grades)
     /\ Unmatched(grades[i + 1])
     /\ IsIntegerText(grades[i + 1].count))
        => /\ GradeTable' = GradeTable
           /\ err' = "none" /\ pc' = pc
           /\ i' = i + 1

C6_UnmatchedIgnored == [][C6_UnmatchedStep]_vars

\* an unmatched record was passed over and the next record was counted
C6_Witness ==
    /\ InGradeLoop /\ i = 2 /\ err = "none"
    /\ Unmatched(grades[1]) /\ ~Unmatched(grades[2])
    /\ \E c \in Cells(GradeTable) : GradeTable[c[1]][c[2]] # 0
    /\ \A b \in FiveBoroughs, g \in {<<"A">>, <<"B">>, <<"C">>} :
          GradeTable[b][g] = CellSum(<<grades[2]>>, 1, b, g)

-----------------------------------------------------------------------------
(* C7: no percentage computation raises a division error, and a            *)
(* percentage whose whole is zero is 0.0.                                  *)
C7_PercentageTotal ==
    /\ err # "ZeroDivisionError"
    /\ \A k \in 1..Len(shown) : shown[k].whole = 0 => shown[k].value = 0

-----------------------------------------------------------------------------
(* C8: category aggregation rejects a record whose count is negative or    *)
(* not a number: no such record is ever among those counted into the       *)
(* bucket totals.                                                          *)
C8_InvalidCountRejected ==
    CategoryTable # Unset =>
        \A k \in 1..i : IsDecimal(complaints[k].count)

-----------------------------------------------------------------------------
(* C9: with no complaint and no grade record a visualizer raises nothing,  *)
(* and every bucket and cell it has created holds zero.                    *)
C9_EmptyInputCompletes ==
    (script \in {"charts", "html"} /\ file_exists
        /\ complaints = <<>> /\ grades = <<>>)
        => /\ err = "none"
           /\ CategoryTable # Unset => \A b \in DOMAIN CategoryTable : CategoryTable[b] = 0
           /\ GradeTable # Unset =>
                 \A c \in Cells(GradeTable) : GradeTable[c[1]][c[2]] = 0

-----------------------------------------------------------------------------
(* C10: once a fetch of run_analysis has failed, no analysis step and no   *)
(* save_results runs in that run.                                          *)
C10_FailedFetchStopsRun ==
    (script = "analysis" /\ failed # {})
        => done = <<>> /\ "analysis_results.json" \notin files

-----------------------------------------------------------------------------
(* C11: ranking is a stable sort.  The borough totals, listed in the order *)
(* in which each borough first occurs in the grade records, and the city   *)
(* populations, listed in the order of the configured cities, are ranked   *)
(* by count in descending order, and any two entries of equal count keep   *)
(* the order they had in the input: the ranking is the one sequence that   *)
(* the input determines.                                                   *)
IndexOfName(items, name) == CHOOSE k \in 1..Len(items) : items[k][1] = name

\* the position of the first record of borough boro
FirstRecordOf(records, boro) ==
    CHOOSE k \in 1..Len(records) :
        records[k].boro = boro /\ \A j \in 1..(k - 1) : records[j].boro # boro

\* output holds the items of input, by descending key, ties in input order
RankedStably(input, output) ==
    /\ Len(output) = Len(input)
    /\ {output[k] : k \in 1..Len(output)} = {input[k] : k \in 1..Len(input)}
    /\ \A p, q \in 1..Len(output) :
          p < q =>
             \/ output[p][2] > output[q][2]
             \/ /\ output[p][2] = output[q][2]
                /\ IndexOfName(input, output[p][1]) < IndexOfName(input, output[q][1])

C11_StableRanking ==
    /\ sorted_boroughs # <<>> =>
          /\ \A p, q \in 1..Len(borough_totals) :
                p < q => FirstRecordOf(grades, borough_totals[p][1])
                            < FirstRecordOf(grades, borough_totals[q][1])
          /\ RankedStably(borough_totals, sorted_boroughs)
    /\ city_order # <<>> =>
          /\ {city_order[k] : k \in 1..Len(city_order)} = DOMAIN cities
          /\ Len(city_order) = Cardinality(DOMAIN cities)
          /\ \A p, q \in 1..Len(city_order) :
                p < q =>
                   \/ cities[city_order[p]] > cities[city_order[q]]
                   \/ /\ cities[city_order[p]] = cities[city_order[q]]
                      /\ \E a, b \in 1..Len(CityNames) :
                            /\ a < b
                            /\ CityNames[a] = city_order[p]
                            /\ CityNames[b] = city_order[q]

\* three boroughs were ranked, two of them tied, and the ranking moved an entry
C11_Witness ==
    /\ Len(sorted_boroughs) = 3
    /\ sorted_boroughs # borough_totals
    /\ \E p \in 1..2 : sorted_boroughs[p][2] = sorted_boroughs[p + 1][2]

\* cities were ranked, two of them tied
C11_WitnessCities ==
    /\ \E p \in 1..(Len(city_order) - 1) :
          cities[city_order[p]] = cities[city_order[p + 1]]

-----------------------------------------------------------------------------
(* C12: top-n selection is idempotent.  The rows selected with n = 10 by   *)
(* analyze_311_complaints and with n = 5 by create_summary_dashboard are   *)
(* the first n records of the list (all of them when there are fewer), at  *)
(* most n in number, and selecting again from the selected rows with the   *)
(* same n returns the same rows.                                           *)
FirstN(s, n) == [k \in 1..(IF Len(s) < n THEN Len(s) ELSE n) |-> s[k]]

C12_TopNIdempotent ==
    top_complaints # Unset =>
        /\ top_complaints.n = (IF script = "analysis" THEN 10 ELSE 5)
        /\ top_complaints.rows = FirstN(complaints, top_complaints.n)
        /\ Len(top_complaints.rows) <= top_complaints.n
        /\ Take(top_complaints.rows, top_complaints.n) = top_complaints.rows

\* ten rows were selected from a list of more than ten records
C12_Witness ==
    /\ top_complaints # Unset
    /\ top_complaints.n = 10
    /\ Len(complaints) > 10
    /\ Len(top_complaints.rows) = 10

\* five rows were selected from a list of more than five records
C12_WitnessFive ==
    /\ top_complaints # Unset
    /\ top_complaints.n = 5
    /\ Len(complaints) > 5
    /\ Len(top_complaints.rows) = 5

-----------------------------------------------------------------------------
(* C13: counts are always non-negative integers.  Whatever record list the *)
(* aggregation is at work on, every bucket total, every (borough, grade)   *)
(* cell and every borough total is a natural number.                       *)
C13_CountsNonNegative ==
    /\ CategoryTable # Unset => \A b \in DOMAIN CategoryTable : CategoryTable[b] \in Nat
    /\ GradeTable # Unset =>
          \A c \in Cells(GradeTable) : GradeTable[c[1]][c[2]] \in Nat
    /\ \A k \in 1..Len(borough_totals) : borough_totals[k][2] \in Nat
    /\ \A k \in 1..Len(totals.borough_totals) : totals.borough_totals[k] \in Nat
    /\ borough_data # Unset =>
          \A b \in DOMAIN borough_data :
              \A g \in DOMAIN borough_data[b] : borough_data[b][g] \in Nat

-----------------------------------------------------------------------------
(* C14: borough names are matched against the five boroughs.  The          *)
(* per-borough totals of the borough chart and of the summary dashboard,   *)
(* and the per-borough grade table of analyze_restaurant_grades, have an   *)
(* entry for none but Manhattan, Brooklyn, Queens, Bronx and Staten        *)
(* Island: a record of any other borough is counted nowhere.               *)
C14_OnlyFiveBoroughs ==
    /\ \A k \in 1..Len(borough_totals) : borough_totals[k][1] \in FiveBoroughs
    /\ \A k \in 1..Len(sorted_boroughs) : sorted_boroughs[k][1] \in FiveBoroughs
    /\ borough_data # Unset => DOMAIN borough_data \subseteq FiveBoroughs

-----------------------------------------------------------------------------
(* C15: no record is mutated after creation.  Once the record lists are in *)
(* hand (loaded from analysis_results.json by a visualizer, returned by    *)
(* the fetch in run_analysis) no step of any aggregation or chart          *)
(* operation changes them, nor self.results once it is assigned; so the    *)
(* six chart operations and the analyze_* operations all see the records   *)
(* that were loaded or fetched.                                            *)
ComplaintsInHand == script \in {"charts", "html"} \/ pc # "start"

GradesInHand == script \in {"charts", "html"} \/ pc \notin {"start", "fetch_grades"}

ResultsAssigned == DOMAIN results # {}

C15_RecordsKeptStep ==
    /\ ComplaintsInHand => complaints' = complaints
    /\ GradesInHand => grades' = grades
    /\ ResultsAssigned => results' = results

C15_ResultsHoldRecords ==
    ResultsAssigned =>
        results.c311 = complaints /\ results.restaurant_grades = grades

C15_NoRecordMutated == []C15_ResultsHoldRecords /\ [][C15_RecordsKeptStep]_vars

\* the six chart operations ran, each on a non-empty list, and wrote their files
C15_Witness ==
    /\ script = "charts" /\ pc = "done"
    /\ complaints # <<>> /\ grades # <<>>
    /\ \E k \in 1..Len(grades) : Upper(grades[k].grade) # grades[k].grade
    /\ Cardinality(files) = 6

-----------------------------------------------------------------------------
(* C16: whenever create_all_visualizations reports "All visualizations     *)
(* created successfully" and lists the six chart files, each of the six    *)
(* files was written during that call.                                     *)
SixFiles ==
    { "visualizations/311_complaints_chart.png",
      "visualizations/restaurant_grades_chart.png",
      "visualizations/grade_distribution_pie.png",
      "visualizations/complaint_categories_chart.png",
      "visualizations/borough_comparison_chart.png",
      "visualizations/dashboard.png" }

C16_ReportedFilesWritten ==
    (script = "charts" /\ pc = "done") => SixFiles \subseteq files

-----------------------------------------------------------------------------
(* C17: run_analysis follows a fixed order.  The four fetch operations     *)
(* return in the order 311 complaints, restaurant grades, NYC population,  *)
(* city comparison, all of them before self.results is assigned;           *)
(* self.results is assigned before any analyze_* operation runs; the       *)
(* analysis steps run in their order and save_results runs once, last.     *)
(* Every step moves the run forward, and no exception ends the run before  *)
(* save_results for any combination of fetch successes and failures in     *)
(* which the data fetched is well-formed: every count converts to an       *)
(* integer and every population retrieved is positive.                     *)
FetchOrder ==
    << "fetch_311_complaints", "fetch_restaurant_grades", "fetch_nyc_population",
       "fetch_city_comparison" >>

StepOrder ==
    << "analyze_311_complaints", "analyze_restaurant_grades",
       "analyze_population_comparison", "create_combined_insights", "save_results" >>

IsPrefix(s, t) == Len(s) <= Len(t) /\ \A k \in 1..Len(s) : s[k] = t[k]

C17_FixedOrder ==
    script = "analysis" =>
        /\ IsPrefix(fetched, FetchOrder)
        /\ IsPrefix(done, StepOrder)
        /\ ResultsAssigned => fetched = FetchOrder
        /\ done # <<>> => ResultsAssigned
        /\ "analysis_results.json" \in files => done = StepOrder
        /\ pc = "done" => done = StepOrder /\ "analysis_results.json" \in files

\* what the services answer in this run is well-formed
WellFormedAnswers ==
    /\ AllCountsConvert(net.c311.data)
    /\ AllCountsConvert(net.grades.data)
    /\ net.pop.status = "ok" => net.pop.population > 0
    /\ \A k \in 1..Len(net.cities) :
          net.cities[k].status = "ok" => net.cities[k].population > 0

\* how far the run has come
RunRank ==
    CASE pc = "start" -> 0
      [] pc = "fetch_grades" -> 1
      [] pc = "fetch_population" -> 2
      [] pc = "fetch_cities" -> 3 + i
      [] pc = "store" -> 9
      [] pc = "analyze_311" -> 10
      [] pc = "analyze_grades" -> 11
      [] pc = "analyze_population" -> 12
      [] pc = "insights" -> 13
      [] pc = "save" -> 14
      [] OTHER -> 15

C17_Advances == script = "analysis" => RunRank' > RunRank

C17_ReachesSaveWellFormed ==
    (script = "analysis" /\ WellFormedAnswers) => (pc # "crashed" /\ err = "none")

C17_OrderedRun ==
    /\ [](C17_FixedOrder /\ C17_ReachesSaveWellFormed)
    /\ [][C17_Advances]_vars

\* the claim as made: no exception ends the run before save_results, whatever is
\* fetched
C17_ReachesSaveAlways ==
    /\ C17_FixedOrder
    /\ script = "analysis" => (pc # "crashed" /\ err = "none")

\* the run saved its results although two fetches failed and one returned records
C17_Witness ==
    /\ script = "analysis" /\ pc = "done"
    /\ done = StepOrder
    /\ {"fetch_restaurant_grades", "fetch_nyc_population"} \subseteq failed
    /\ complaints # <<>>

-----------------------------------------------------------------------------
(* C18: when analysis_results.json does not exist, main() of either        *)
(* visualizer catches the FileNotFoundError and reports the missing file;  *)
(* the run goes no further: no directory is made and no file is written.   *)
C18_MissingFileHandled ==
    (script \in {"charts", "html"} /\ ~file_exists) =>
        /\ files = {} /\ dirs = {}
        /\ pc \in {"start", "handled"}
        /\ pc = "start" => err = "none"
        /\ pc = "handled" => err = "FileNotFoundError"

\* main of the chart script has reported the missing file
C18_Witness ==
    script = "charts" /\ ~file_exists /\ pc = "handled" /\ err = "FileNotFoundError"

\* main of the HTML script has reported the missing file
C18_WitnessHtml ==
    script = "html" /\ ~file_exists /\ pc = "handled" /\ err = "FileNotFoundError"

-----------------------------------------------------------------------------
(* C19: in create_html_dashboard, when no grade record matches a known     *)
(* borough and a recognized grade, or the matched counts sum to zero       *)
(* (total_restaurants = 0), the page is never written: dashboard.html is   *)
(* not among the files written, no directory is made, the success report   *)
(* is not reached, and where the run ends main() has caught an error.      *)
NoRecordMatches(records) == \A k \in 1..Len(records) : Unmatched(records[k])

C19_NoMatchFailsBeforeWrite ==
    /\ (script = "html" /\ NoRecordMatches(grades)) =>
          /\ "visualizations/dashboard.html" \notin files
          /\ dirs = {}
          /\ pc \notin {"write", "done"}
          /\ pc = "handled" => err # "none"
    /\ (script = "html" /\ pc \in {"write", "done"}) => totals.restaurants # 0
    /\ (script = "html" /\ err = "ZeroDivisionError") =>
          pc = "handled" /\ totals.restaurants = 0 /\ files = {}

\* a list of grade records none of which matches ended in the division error
C19_Witness ==
    /\ script = "html" /\ pc = "handled" /\ err = "ZeroDivisionError"
    /\ grades # <<>> /\ NoRecordMatches(grades)
    /\ complaints # <<>>
    /\ files = {}

-----------------------------------------------------------------------------
(* C20: fetch_city_comparison isolates failures per city.  After each      *)
(* request the mapping holds exactly the cities requested so far whose     *)
(* request answered with a 2022 value, with that value; a failed request   *)
(* or a body without the value raises nothing and the loop goes on to the  *)
(* next city, so all five cities are requested in order and the keys are   *)
(* always among the five configured names.                                 *)
CitiesRequested == IF pc = "fetch_cities" THEN i ELSE Len(CityNames)

C20_MappingOfAnswered ==
    (script = "analysis" /\ pc \notin {"start", "fetch_grades", "fetch_population"}) =>
        /\ DOMAIN cities =
              {CityNames[k] : k \in {j \in 1..CitiesRequested : net.cities[j].status = "ok"}}
        /\ DOMAIN cities \subseteq
              {"New York City", "Los Angeles", "Chicago", "Houston", "Phoenix"}
        /\ \A k \in 1..CitiesRequested :
              net.cities[k].status = "ok" => cities[CityNames[k]] = net.cities[k].population
        /\ pc \in {"fetch_cities", "store"} => err = "none"

C20_LoopGoesOn ==
    (script = "analysis" /\ pc = "fetch_cities" /\ i < 5) =>
        i' = i + 1 /\ pc' = pc /\ err' = "none"

C20_PerCityIsolation == []C20_MappingOfAnswered /\ [][C20_LoopGoesOn]_vars

\* the second request failed, the fourth had no value, the others are in the mapping
C20_Witness ==
    /\ script = "analysis" /\ pc = "store"
    /\ net.cities[2].status = "error" /\ net.cities[4].status = "missing"
    /\ DOMAIN cities = {"New York City", "Chicago", "Phoenix"}

-----------------------------------------------------------------------------
(* C21                                                                     *)

\* what a request is made for: the fetch operation and the dataset or entity
TargetOf(r) == <<r.op, r.url>>

\* the targets of one run: one per Socrata query, one for the NYC population and
\* one per configured city
RunTargets ==
    {<<"fetch_311_complaints", "erm2-nwe9">>, <<"fetch_restaurant_grades", "43nn-pn8j">>,
     <<"fetch_nyc_population", "geoId/3651000">>}
    \cup {<<"fetch_city_comparison", CityDcids[k]>> : k \in 1..Len(CityDcids)}

RequestsTo(t) == {k \in 1..Len(requests) : TargetOf(requests[k]) = t}

C21_AtMostOnePerTarget ==
    /\ \A k \in 1..Len(requests) : TargetOf(requests[k]) \in RunTargets
    /\ \A t \in RunTargets : Cardinality(RequestsTo(t)) <= 1

C21_NoRequestAfterFailure ==
    /\ IsPrefix(requests, requests')
    /\ \A k \in (Len(requests) + 1)..Len(requests') :
          \A j \in 1..(k - 1) :
              ~requests'[j].ok => TargetOf(requests'[j]) # TargetOf(requests'[k])

\* C21: no fetch is retried: in one run of run_analysis every target (the 311
\* query, the grades query, the NYC population, each configured city) is requested
\* at most once, and no step issues a request to a target whose earlier request
\* failed
C21_NoFetchRetried == []C21_AtMostOnePerTarget /\ [][C21_NoRequestAfterFailure]_vars

\* the run is over, every target was requested once, the grades request had failed
\* and so had the one for the second city
C21_Witness ==
    /\ script = "analysis" /\ pc = "done"
    /\ \A t \in RunTargets : Cardinality(RequestsTo(t)) = 1
    /\ ~requests[2].ok /\ ~requests[5].ok

-----------------------------------------------------------------------------
(* C22                                                                     *)

OtherCell == <<"o", "t", "h", "e", "r">>

\* analyze_restaurant_grades has built and printed its table
GradesAnalyzed ==
    /\ script = "analysis" /\ grades # <<>>
    /\ \E k \in 1..Len(done) : done[k] = "analyze_restaurant_grades"

BorosOf(records) == {records[k].boro : k \in 1..Len(records)}

RECURSIVE SumOver(_, _)
SumOver(f, keys) ==
    IF keys = {} THEN 0
    ELSE LET b == CHOOSE x \in keys : TRUE IN f[b] + SumOver(f, keys \ {b})

\* every count is in one cell of the row of its own borough, and the Total column
\* adds the four cells of a row
C22_CountsConserved ==
    GradesAnalyzed =>
        /\ DOMAIN borough_data = BorosOf(grades)
        /\ \A b \in DOMAIN borough_data :
              /\ \A g \in RecognizedGrades :
                    borough_data[b][g] = CellSum(grades, Len(grades), b, g)
              /\ borough_data[b][OtherCell] = CellSum(grades, Len(grades), b, <<>>)
              /\ printed_total[b] = borough_data[b][<<"A">>] + borough_data[b][<<"B">>]
                                    + borough_data[b][<<"C">>] + borough_data[b][OtherCell]
        /\ SumOver(printed_total, DOMAIN printed_total) = SumSeq(IntCounts(grades))
        /\ grand_total = SumOver([b \in DOMAIN borough_data |->
                                     printed_total[b] - borough_data[b][OtherCell]],
                                 DOMAIN borough_data)

C22_GrandTotalIffNoOther ==
    GradesAnalyzed =>
        ((grand_total = SumOver(printed_total, DOMAIN printed_total))
            <=> (\A b \in DOMAIN borough_data : borough_data[b][OtherCell] = 0))

\* C22: analyze_restaurant_grades loses no count: the cells A, B, C and other of
\* all borough rows add up to the sum of the input counts, a grade that is none of
\* A, B, C goes to the other cell of its borough, every borough string has a row,
\* the Total column includes the other cell, grand_total leaves it out, and
\* grand_total equals the sum of the Total column exactly when every other cell
\* is zero
C22_NoCountLost == C22_CountsConserved /\ C22_GrandTotalIffNoOther

-----------------------------------------------------------------------------
(* C23                                                                     *)

ShownAs(what) == {k \in 1..Len(shown) : shown[k].what = what}

\* both Grade A shares of one run have been reported
BothSharesShown ==
    /\ script = "analysis"
    /\ ShownAs("grade_a") # {} /\ ShownAs("grade_a_of_all") # {}

\* the share of analyze_restaurant_grades and the one of create_combined_insights
ShareOfGraded == shown[CHOOSE k \in ShownAs("grade_a") : TRUE]
ShareOfAll == shown[CHOOSE k \in ShownAs("grade_a_of_all") : TRUE]

\* part1 / whole1 <= part2 / whole2 and part1 / whole1 = part2 / whole2, for
\* positive wholes
RatioLeq(s, t) == s.part * t.whole <= t.part * s.whole
RatioEq(s, t) == s.part * t.whole = t.part * s.whole

\* the counts of the records whose grade is none of A, B, C
RECURSIVE OtherCounts(_)
OtherCounts(records) ==
    IF records = <<>> THEN 0
    ELSE (IF ExpectedGrade(Head(records).grade) = <<>>
          THEN ParseInt(Head(records).count).val ELSE 0) + OtherCounts(Tail(records))

SomeOtherPositive(records) ==
    \E k \in 1..Len(records) :
        ExpectedGrade(records[k].grade) = <<>> /\ ParseInt(records[k].count).val > 0

\* C23, as stated: on the same grade list the Grade A share of
\* create_combined_insights is never greater than the one of
\* analyze_restaurant_grades, and the two are equal exactly when no record with a
\* grade outside A, B, C has a positive count
C23_ShareNeverGreater ==
    BothSharesShown =>
        /\ RatioLeq(ShareOfAll, ShareOfGraded)
        /\ RatioEq(ShareOfAll, ShareOfGraded) <=> ~SomeOtherPositive(grades)

\* C23, amended: both shares have the Grade A count as numerator, the denominators
\* differ by the sum of the counts of the records with a grade outside A, B, C;
\* the share of create_combined_insights is not greater than the other one
\* when the Grade A count and that sum are not of opposite sign, and the two are
\* equal exactly when the Grade A count is zero or that sum is zero
C23_ShareOrderedBySign ==
    BothSharesShown =>
        LET a == ShareOfGraded.part
            other == OtherCounts(grades)
        IN  /\ ShareOfAll.part = a
            /\ ShareOfAll.whole = ShareOfGraded.whole + other
            /\ ShareOfAll.whole > 0 /\ ShareOfGraded.whole > 0
            /\ (a * other >= 0) <=> RatioLeq(ShareOfAll, ShareOfGraded)
            /\ (a = 0 \/ other = 0) <=> RatioEq(ShareOfAll, ShareOfGraded)

\* both shares are reported, the list has Grade A counts and a positive count of
\* another grade, and the share of create_combined_insights is the smaller one
C23_Witness ==
    /\ BothSharesShown
    /\ ShareOfGraded.part > 0 /\ OtherCounts(grades) > 0
    /\ ~RatioEq(ShareOfAll, ShareOfGraded)

\* both shares are reported and a negative count of another grade makes the share
\* of create_combined_insights the greater one
C23_WitnessNegative ==
    /\ BothSharesShown
    /\ ShareOfGraded.part > 0 /\ OtherCounts(grades) < 0
    /\ ~RatioLeq(ShareOfAll, ShareOfGraded)

-----------------------------------------------------------------------------
(* C24                                                                     *)

\* create_html_dashboard has computed its totals
HtmlTotalsComputed == script = "html" /\ totals.borough_totals # <<>>

\* the counts of the records of a known borough whose grade, in upper case, is
\* one of A, B, C
RECURSIVE MatchedCounts(_)
MatchedCounts(records) ==
    IF records = <<>> THEN 0
    ELSE (IF Head(records).boro \in FiveBoroughs /\ ExpectedGrade(Head(records).grade) # <<>>
          THEN ParseInt(Head(records).count).val ELSE 0) + MatchedCounts(Tail(records))

\* C24: in create_html_dashboard total_a + total_b + total_c, total_restaurants,
\* sum(borough_totals) and the sum of the counts of the records of a known borough
\* with a grade A, B or C (in any case) are one number
C24_TotalsConsistent ==
    HtmlTotalsComputed =>
        /\ totals.a + totals.b + totals.c = totals.restaurants
        /\ totals.restaurants = SumSeq(totals.borough_totals)
        /\ totals.restaurants = MatchedCounts(grades)
        /\ Len(totals.borough_totals) = Len(boroughs)

\* the totals are computed from a list with a matched record of each kind of
\* grade spelling and with records left out
C24_Witness ==
    /\ HtmlTotalsComputed
    /\ totals.restaurants # 0 /\ totals.c # 0
    /\ \E k \in 1..Len(grades) : grades[k].boro \notin FiveBoroughs

-----------------------------------------------------------------------------
(* C25                                                                     *)

\* create_visualizations.py runs after create_html_visualizations.py built its
\* tables from the same lists
ChartsRunAfterHtml ==
    /\ script = "charts" /\ complaints # <<>> /\ grades # <<>>
    /\ totals.borough_totals # <<>> /\ category_counts_html # Unset

GradesChartSaved == "visualizations/restaurant_grades_chart.png" \in files
CategoriesChartSaved == "visualizations/complaint_categories_chart.png" \in files

-----------------------------------------------------------------------------
(* C26                                                                     *)

\* the stacked chart has its table and the pie chart its sizes
BothGradeChartsComputed ==
    script = "charts" /\ GradesChartSaved /\ grade_counts # Unset /\ sizes # <<>>

GradeLetters == << <<"A">>, <<"B">>, <<"C">> >>

\* sum(a_counts), sum(b_counts), sum(c_counts) of the stacked chart
ColumnSum(k) == SumGrade(grade_counts, GradeLetters[k], 1)

OutsidePositive(records) ==
    \E k \in 1..Len(records) :
        /\ ExpectedGrade(records[k].grade) # <<>>
        /\ ParseInt(records[k].count).val > 0
        /\ records[k].boro \notin FiveBoroughs

\* C26: within DataVisualizer the pie chart's total of each grade is at least the
\* stacked chart's column sum of that grade, and the two are equal for every grade
\* exactly when no record with a grade A, B or C and a positive count has a
\* borough outside the five
C26_PieAtLeastColumns ==
    BothGradeChartsComputed =>
        /\ \A k \in 1..3 : sizes[k] >= ColumnSum(k)
        /\ (\A k \in 1..3 : sizes[k] = ColumnSum(k)) <=> ~OutsidePositive(grades)

\* what holds on every list: a size is the column sum plus the counts of the
\* records of that grade outside the five boroughs
C26_PieIsColumnsPlusOutside ==
    BothGradeChartsComputed =>
        \A k \in 1..3 :
            sizes[k] = ColumnSum(k)
                       + SumOver([b \in BorosOf(grades) \ FiveBoroughs |->
                                     CellSum(grades, Len(grades), b, GradeLetters[k])],
                                 BorosOf(grades) \ FiveBoroughs)

-----------------------------------------------------------------------------
(* C27                                                                     *)

\* the bucket definitions whose match set holds the complaint type
MatchingBuckets(t) == {k \in 1..Len(categories) : t \in categories[k].types}

\* every order in which the bucket definitions can be scanned
ScanOrders ==
    {f \in [1..Len(categories) -> 1..Len(categories)] :
        \A j, k \in 1..Len(categories) : f[j] = f[k] => j = k}

\* the bucket a scan in the given order ends in
RECURSIVE FirstMatchIn(_, _, _)
FirstMatchIn(order, t, k) ==
    IF k > Len(categories) THEN "Other"
    ELSE IF t \in categories[order[k]].types THEN categories[order[k]].name
    ELSE FirstMatchIn(order, t, k + 1)

C27_DisjointMatchSets ==
    /\ \A j, k \in 1..Len(categories) :
          j # k => categories[j].types \cap categories[k].types = {}
    /\ \E k \in 1..Len(categories) : categories[k].name = "Other"
    /\ \A k \in 1..Len(categories) :
          categories[k].name = "Other" => categories[k].types = {}

C27_SameBucketAnyOrder ==
    (InCategoryLoop /\ i' = i + 1) =>
        LET t == complaints[i + 1].complaint_type
            count == ParseInt(complaints[i + 1].count).val
        IN  /\ Cardinality(MatchingBuckets(t)) <= 1
            /\ \A order \in ScanOrders :
                  CategoryTable' =
                      [CategoryTable EXCEPT ![FirstMatchIn(order, t, 1)] = @ + count]
            /\ CategoryTable'["Other"] # CategoryTable["Other"] => MatchingBuckets(t) = {}

\* C27: the match sets of the configured buckets are pairwise disjoint and the one
\* of Other is empty, so a complaint type is in at most one match set, the bucket
\* that takes a record's count is the same for every order in which the bucket
\* definitions are scanned, and Other takes a count only when no match set holds
\* the type
C27_OrderIndependent == []C27_DisjointMatchSets /\ [][C27_SameBucketAnyOrder]_vars

\* the category loop has put a count into a bucket with a match set and another
\* one, through the fallthrough, into Other
C27_Witness ==
    /\ InCategoryLoop /\ i >= 2
    /\ CategoryTable["Noise"] > 0 /\ CategoryTable["Other"] > 0
    /\ \E k \in 1..i : MatchingBuckets(complaints[k].complaint_type) = {}

-----------------------------------------------------------------------------
(* C28                                                                     *)

\* everything a tutorial script prints, in the order of its main
AllSectionsOf(s) == <<"banner">> \o SectionsOf(s) \o <<CompleteOf(s)>>

\* the run has ended, by returning or by an exception
TutorialStopped == script \in TutorialScripts /\ pc \in {"complete", "crashed"}

\* no request, no file, no directory; the sections in the order of main; the k-th
\* function's section only after Enter at every prompt before it
C28_PrintOnlyInOrder ==
    script \in TutorialScripts =>
        /\ requests = <<>> /\ fetched = <<>> /\ files = {} /\ dirs = {}
        /\ IsPrefix(sections, AllSectionsOf(script))
        /\ entered <= PromptsOf(script)
        /\ \A k \in 2..Len(sections) :
              entered >= (IF k - 2 < PromptsOf(script) THEN k - 2 ELSE PromptsOf(script))

C28_CompleteOnceAnswered ==
    (TutorialStopped /\ entered = PromptsOf(script)) =>
        /\ pc = "complete"
        /\ sections = AllSectionsOf(script)

\* C28: the tutorial scripts only print: no fetch, no file written; the sections
\* come in one fixed order; each section after the first of mcp_demo and of
\* interactive_mcp_example is printed only after Enter was pressed at the prompt
\* before it (4 prompts and 6 prompts); and a run in which every prompt was
\* answered ends with the final Complete section printed
C28_TutorialsOnlyPrint == C28_PrintOnlyInOrder /\ C28_CompleteOnceAnswered

=============================================================================
